---- MODULE Spec2Model ----
(***************************************************************************)
(* Device lock file, device sessions and the session-guarded operation     *)
(* template of BaseDevice / DeviceSession.                                 *)
(*                                                                         *)
(* Several node processes share one device, i.e. one lock file             *)
(* <localStorage>/.lock.  Every process runs a single-threaded event loop: *)
(* the synchronous part of a call or of a callback is one atomic step, and *)
(* a call is suspended while an fs.readFile, an fs.writeFile, a            *)
(* getProcessPathByPID, an isBooted or a backend command is outstanding.   *)
(* A file operation takes effect at the step that delivers its callback.   *)
(***************************************************************************)
EXTENDS Integers, Sequences, FiniteSets, TLC

\* process.pid of the process whose calls are followed in full, and the pid of
\* another process that uses the same device
ThisProc == 1
OtherProc == 2
Procs == {ThisProc, OtherProc}

\* calls the process may have outstanding at a time in Spec
MaxCalls == 2

\* calls ThisProc may have outstanding at a time in LockSpec
MaxLockCalls == 3

\* DeviceSession objects one process creates
MaxSessions == 2

\* clock advances (each of TickMs) in a behaviour
MaxTicks == 2

\* file operations that fail in a behaviour
MaxFaults == 1

\* DeviceSession.js:14, default session timeout in ms
timeout == 1000 * 60 * 5

\* the clock is observed every half timeout
TickMs == timeout \div 2

\* JavaScript null: a null token, a null session
Null == 0

\* calls of getSimulatorDeviceStatuses in a behaviour
MaxRequests == 3

\* clock advances (each of WalkTickMs) in a behaviour of WalkSpec
MaxWalkTicks == 3

\* iOS/index.js:64, how long a walk's result is taken to be fresh, in ms
REFRESH_TIMEOUT == 1000

\* the clock is observed every half REFRESH_TIMEOUT
WalkTickMs == REFRESH_TIMEOUT \div 2

Requests == 1..MaxRequests

\* calls of generateDeviceObjects in a behaviour
MaxGenRequests == 2

GenRequests == 1..MaxGenRequests

\* instruments started on the device in a behaviour
MaxInstruments == 2

Instruments == 1..MaxInstruments

\* device records constructed in a behaviour
MaxRecords == 4

\* Android/index.js:100, the default boot timeout in ms (3 minutes)
WAIT_FOR_BOOT_TIMEOUT == 180000

\* clock advances (each of WaitTickMs) in a behaviour of WaitSpec
MaxWaitTicks == 4

\* the clock is observed every half WAIT_FOR_BOOT_TIMEOUT
WaitTickMs == WAIT_FOR_BOOT_TIMEOUT \div 2

\* one device of each kind; the kind stands for the device id
DeviceIds == {"iOS", "AndroidEmulator", "AndroidPhysical"}

\* calls of boot in a behaviour
MaxBoots == 2

\* part_000:365, waitForBoot(10, ...): the number of attempts boot asks for
BootAttempts == 10

Boots == 1..MaxBoots

\* calls of rotateLeft and rotateRight in a behaviour
MaxRotations == 3

Rotations == 1..MaxRotations

\* registered drivers in DiscoverSpec
MaxDrivers == 2

\* devices a driver returns at most
MaxDevices == 2

Drivers == 1..MaxDrivers

\* the caller of a request has received nothing yet
NoAnswer == [res |-> "none", snap |-> {}, walk |-> 0]

VARIABLES
    lockFile,     \* content of <localStorage>/.lock: "<0|1>.<pid>" or absent
    alive,        \* pids for which getProcessPathByPID finds a process
    localLock,    \* BaseDevice closure variable localLock, per process
    session,      \* BaseDevice closure variable session, per process (Null or a DeviceSession)
    objs,         \* the DeviceSession objects of a process: token, lastUsed, own (made by this
                  \* device), given (the caller of startSession has received it)
    sessions,     \* DeviceSession.js module variable sessions (keys), per process
    now,          \* Date.now()
    hasRotateTo,  \* the device class defines rotateTo (Android) or not (iOS)
    calls,        \* outstanding calls of a process and where each is suspended
    faults,       \* file operations that have failed so far
    held,         \* history: lock() completed in this process and no unlock() after it
    ev            \* history: what the last step completed (call result, validate result, lock result)

\* iOS/index.js module state of getSimulatorDeviceStatuses ('xcrun simctl list')
VARIABLES
    WALKING_SIMS,      \* a walk is taken to be in progress
    LAST_SIM_WALK,     \* Date.now() when the last walk was started
    SIM_DEVICE_QUEUE,  \* the requests waiting for the walk's result
    SIM_DEVICE_CACHE,  \* the cache object: the walks whose output is in it
    execs,             \* the 'xcrun simctl list' child processes that are running
    invocations,       \* exec calls made so far
    answers            \* what each request's caller has received

\* iOSSimulatorDevice (part_000): the simulator of the device and the boot
\* calls of this process
VARIABLES
    isBooting,               \* part_000 module variable isBooting[self.udid]
    PATH_TO_SELECTED_XCODE,  \* iOS/index.js: the XCode path has been retrieved
    deviceBooted,            \* 'xcrun simctl list' shows the device as Booted
    simRunning,              \* a Simulator process with -CurrentDeviceUDID <udid> runs
    spawns,                  \* Simulator processes spawned by boot so far
    boots                    \* the boot calls and where each is suspended

\* the state of the device, its lock and its sessions
devVars == <<lockFile, alive, localLock, session, objs, sessions,
             hasRotateTo, calls, faults, held, ev>>

walkVars == <<WALKING_SIMS, LAST_SIM_WALK, SIM_DEVICE_QUEUE, SIM_DEVICE_CACHE,
              execs, invocations, answers>>

bootVars == <<isBooting, PATH_TO_SELECTED_XCODE, deviceBooted, simRunning, spawns, boots>>

\* the orientation of the device as its object tracks it
VARIABLES
    orientation,  \* closure variable orientation (Android/index.js:173, part_000:38)
    rots,         \* the rotateLeft and rotateRight calls whose action has been started
    turns         \* history: quarter turns to the right that calls reported as made, mod 4

rotVars == <<orientation, rots, turns>>

\* the storage directories of the device
VARIABLES
    storage       \* local: <home>/.DeviceStorage/<id> exists; temp: its subdirectory temp exists

purgeVars == <<storage>>

\* index.js: loading a driver named in config.drivers
VARIABLES
    driver,       \* what require(driverPath) returned
    loaded        \* "none", or how the load of the module ended

loadVars == <<driver, loaded>>

\* index.js: one call of exports.discover
VARIABLES
    pending,      \* drivers whose getAvailableDevices / getAllDevices has not called back
    deviceList,   \* local variable deviceList
    count,        \* local variable count
    completions,  \* the values done has been called with
    expected,     \* history: the capable devices of the error-free responses so far
    erred         \* history: the drivers that reported an error

discVars == <<pending, deviceList, count, completions, expected, erred>>

\* iOS/index.js module state of generateDeviceObjects ('instruments -s devices')
VARIABLES
    WALKING_DEVICES,   \* a walk is taken to be in progress
    LAST_DEVICE_WALK,  \* Date.now() when the last walk was started
    DEVICE_QUEUE,      \* the requests waiting for the walk's result
    gens,              \* the walks and the callbacks each still waits for
    results            \* what each request's caller has received, and how often

genVars == <<WALKING_DEVICES, LAST_DEVICE_WALK, DEVICE_QUEUE, gens, results>>

\* iOSDevice (iOS/index.js): the instruments of the device, and
\* iOSSimulatorDevice.shutdown (part_000)
VARIABLES
    instruments,  \* the keys of the closure variable instruments
    iprocs,       \* the instruments subprocess of each id: "none", "running", "exited"
    signalled,    \* the ids whose subprocess has been sent SIGINT
    emitted,      \* the ids whose exit emitted 'testing sandbox terminated'
    crashed,      \* an uncaught exception has ended the process
    requested,    \* history: the running ids stopInstrument was called for with the session
    iev,          \* history: the call that ended in the last step
    shut          \* the shutdown call and where it is suspended

instVars == <<instruments, iprocs, signalled, emitted, crashed, requested, iev, shut>>

\* the device records of the process
VARIABLES
    DEVICES,      \* BaseDevice.DEVICES: for each device id the record registered, or Null
    created,      \* the records constructed so far: id, and whether a session was started on it
    returned      \* for each device id the record the latest discovery returned, or Null

recVars == <<DEVICES, created, returned>>

\* AndroidDevice.waitForDeviceToFinishBooting (Android/index.js)
VARIABLES
    wait          \* the call: where it is, its start and timeout, and its history

wfbVars == <<wait>>

\* the state added for the device list, the instruments and the boot wait
moreVars == <<genVars, instVars, recVars, wfbVars>>

\* what the steps of the lock, the discovery and the boot leave alone
extVars == <<rotVars, purgeVars, loadVars, discVars, moreVars>>

vars == <<devVars, now, walkVars, bootVars, extVars>>

Slots == 1..(IF MaxCalls > MaxLockCalls THEN MaxCalls ELSE MaxLockCalls)

\* in LockSpec the other process makes one call at a time
LockCalls(p) == IF p = ThisProc THEN MaxLockCalls ELSE 1

\* the .lock file does not exist
ENOENT == [exists |-> FALSE, locked |-> 0, pid |-> 0]

\* contents = (locked ? '1' : '0') + '.' + pid
Contents(locked, pid) == [exists |-> TRUE, locked |-> IF locked THEN 1 ELSE 0, pid |-> pid]

\* status = { locked: parseInt(contents[0]) === 0 ? false : true, pid: parseInt(contents[1]) }
ParseStatus(contents) == [kind |-> "object", locked |-> contents.locked # 0, pid |-> contents.pid]

Status(locked, pid) == [kind |-> "object", locked |-> locked, pid |-> pid]

\* done.call(self, err, null) and done.call(self, err)
StatusNull == [kind |-> "null", locked |-> FALSE, pid |-> 0]
StatusUndefined == [kind |-> "undefined", locked |-> FALSE, pid |-> 0]

Idle == [op |-> "idle", phase |-> "-", pc |-> "-", arg |-> Null, seen |-> 0, branch |-> 0]

NoEv == [p |-> 0, op |-> "none", res |-> "-", arg |-> Null, ret |-> Null, bogus |-> FALSE,
         val |-> "-", vs |-> Null, was |-> Null, lk |-> "-", booted |-> "-", pr |-> "-"]

\* the state of one process, as the synchronous code of a step transforms it
Local(p) == [calls |-> calls[p], localLock |-> localLock[p], session |-> session[p],
             objs |-> objs[p], sessions |-> sessions[p], held |-> held[p],
             crash |-> FALSE, ev |-> [NoEv EXCEPT !.p = p]]

\* a call completes: its callback is called and its promise is settled; a
\* session passed to them is in the caller's hands from then on. ev.res is
\* the error the callback receives and ev.pr the reason the promise is
\* rejected with, "ok" for none
Done(l, c, res, ret) ==
    [l EXCEPT !.calls[c] = Idle,
              !.objs = IF ret = Null THEN @ ELSE [@ EXCEPT ![ret].given = TRUE],
              !.ev.op = l.calls[c].op, !.ev.res = res, !.ev.pr = res,
              !.ev.arg = l.calls[c].arg, !.ev.ret = ret]

\* an exception thrown inside a callback is uncaught: the process exits
Throw(l) == [l EXCEPT !.crash = TRUE]

(***************************************************************************)
(* DeviceSession                                                           *)
(***************************************************************************)

\* DeviceSession.getSessionByToken: sessions[token] || null
getSessionByToken(l, token) == IF token \in l.sessions THEN token ELSE Null

\* DeviceSession constructor: a fresh token (the object's index stands for the
\* md5 of the hrtime), lastUsed = Date.now(), sessions[token] = self
newDeviceSession(l, own) ==
    LET s == Len(l.objs) + 1
    IN  [l EXCEPT !.objs = Append(l.objs, [token |-> s, lastUsed |-> now, own |-> own, given |-> ~own]),
                  !.sessions = l.sessions \cup {s}]

\* destroy: token = null; sessions[token] = null; delete sessions[token]
destroy(l, s) ==
    LET t == Null
    IN  [l EXCEPT !.objs[s].token = t,
                  !.sessions = (l.sessions \cup {t}) \ {t}]

\* isValid with <= for <
isValidInclusive(l, s) ==
    /\ now - l.objs[s].lastUsed <= timeout
    /\ l.objs[s].token # Null
    /\ getSessionByToken(l, l.objs[s].token) # Null

\* isValid = (Date.now() - lastUsed < timeout) && token && sessions[token]
isValid(l, s) ==
    /\ now - l.objs[s].lastUsed < timeout
    /\ l.objs[s].token # Null
    /\ getSessionByToken(l, l.objs[s].token) # Null

\* validate: if(isValid) lastUsed = Date.now(); else self.destroy(); (the value
\* returned is isValid(l, s), evaluated before)
validate(l, s) ==
    IF isValid(l, s)
    THEN [l EXCEPT !.objs[s].lastUsed = now,
                   !.ev.val = "true", !.ev.vs = s, !.ev.was = l.objs[s].token]
    ELSE [destroy(l, s) EXCEPT !.ev.val = "false", !.ev.vs = s, !.ev.was = l.objs[s].token]

\* compare: session === this
compare(this, s) == s = this

(***************************************************************************)
(* BaseDevice: the session-guarded template                                *)
(***************************************************************************)

\* the callback of a guarded operation: for rotateTo called by startSession it
\* is function () { resolve(session); done.call(self, null, session); }
guardedDone(l, c, res) ==
    IF l.calls[c].op = "startSession"
    THEN Done(l, c, "ok", l.session)
    ELSE Done(l, c, res, Null)

\* the callback given to readLock by ifBootedAndAvailableDoWithSessionOrReject
guardedOnReadLock(l, p, c, status) ==
    IF status.kind # "object" THEN guardedDone(l, c, "IOError")
    ELSE IF ~status.locked \/ status.pid = p
         THEN [l EXCEPT !.calls[c].pc = "isBooted", !.calls[c].phase = "guard"]
         ELSE guardedDone(l, c, "DeviceLocked")

\* ifBootedAndAvailableDoWithSessionOrReject, up to its first suspension.
\* compareAndValidate is self.compare(session) && self.validate(done): when the
\* comparison fails validate is not called, and neither is done.
ifBootedAndAvailableDoWithSessionOrReject(l, p, c, userSession) ==
    IF userSession = Null \/ l.session = Null
    THEN guardedDone(l, c, "InvalidSession")
    ELSE IF ~compare(l.session, userSession)
         THEN Done(l, c, "NeverCompletes", Null)
         ELSE LET v == validate(l, l.session)
              IN  IF ~isValid(l, l.session)
                  THEN guardedDone(v, c, "InvalidSession")
                  ELSE IF v.localLock
                       THEN guardedOnReadLock(v, p, c, Status(TRUE, p))
                       ELSE [v EXCEPT !.calls[c].pc = "readFile",
                                      !.calls[c].phase = "guard"]

(***************************************************************************)
(* BaseDevice: startSession, endSession and the lock                       *)
(***************************************************************************)

\* startSession after lock succeeded (lines 409-418): rotateTo(session, 0, cb)
\* where the class has it, and resolve(session)
startSessionLocked(l, p, c) ==
    IF hasRotateTo
    THEN ifBootedAndAvailableDoWithSessionOrReject(l, p, c, l.session)
    ELSE Done(l, c, "ok", l.session)

\* the callback startSession gives to lock (lines 403-420)
startSessionOnLock(l, p, c, err) ==
    IF err # "none"
    THEN Done([l EXCEPT !.ev.lk = "lock-failed"], c, err, Null)
    ELSE startSessionLocked([l EXCEPT !.ev.lk = "locked", !.held = TRUE], p, c)

\* the callbacks endSession gives to unlock: lines 447-458 (branch 1, the
\* session was valid) and lines 462-466 (branch 2, it was not: the error is
\* not looked at)
endSessionOnUnlock(l, c, err) ==
    LET u == IF err = "none"
             THEN [l EXCEPT !.ev.lk = "unlocked", !.held = FALSE]
             ELSE [l EXCEPT !.ev.lk = "unlock-failed"]
    IN  IF l.calls[c].branch = 2
        THEN Done([u EXCEPT !.session = Null], c, "ok", Null)
        ELSE IF err # "none" THEN Done(u, c, err, Null)
        ELSE IF u.session = Null THEN Throw(u)
        ELSE Done([destroy(u, u.session) EXCEPT !.session = Null], c, "ok", Null)

\* the callbacks of lock (lines 233-243) and unlock (lines 255-265) hand the
\* error on to their caller
writeLockDone(l, p, c, err) ==
    IF l.calls[c].op = "startSession"
    THEN startSessionOnLock(l, p, c, err)
    ELSE endSessionOnUnlock(l, c, err)

\* the callback writeLock gives to readLock (lines 193-221)
writeLockOnReadLock(l, p, c, locked, status) ==
    IF status.kind # "object" THEN writeLockDone(l, p, c, "IOError")
    ELSE IF status.locked /\ status.pid # p
         THEN writeLockDone(l, p, c, "LockedByAnother")
         ELSE [l EXCEPT !.localLock = locked, !.calls[c].pc = "writeFile"]

\* readLock when localLock === true answers at once, without reading the file
\* (lines 116-120); otherwise fs.readFile is outstanding
writeLock(l, p, c, locked) ==
    LET w == [l EXCEPT !.calls[c].phase = IF locked THEN "lock" ELSE "unlock"]
    IN  IF w.localLock
        THEN writeLockOnReadLock(w, p, c, locked, Status(TRUE, p))
        ELSE [w EXCEPT !.calls[c].pc = "readFile"]

lock(l, p, c) == writeLock(l, p, c, TRUE)

unlock(l, p, c) == writeLock(l, p, c, FALSE)

\* startSessionOnIsLocked without the check that no session is started
startSessionAlwaysNew(l, p, c, status) ==
    IF status.kind = "null" THEN Throw(l)
    ELSE IF status.kind = "object" /\ status.locked
         THEN Done(l, c, "DeviceLocked", Null)
         ELSE LET n == newDeviceSession(l, TRUE)
              IN  lock([n EXCEPT !.session = Len(n.objs)], p, c)

\* the callback startSession gives to isLocked (lines 395-428); isLocked
\* (lines 534-543) reads lock.locked when typeof lock === 'object', which
\* throws for the null that readLock passes with a read error
startSessionOnIsLocked(l, p, c, status) ==
    IF status.kind = "null" THEN Throw(l)
    ELSE IF status.kind = "object" /\ status.locked
         THEN Done(l, c, "DeviceLocked", Null)
         ELSE IF l.session = Null
              THEN LET n == newDeviceSession(l, TRUE)
                   IN  lock([n EXCEPT !.session = Len(n.objs)], p, c)
              ELSE Done(l, c, "SessionAlreadyStarted", Null)

\* startSession up to its first suspension: isLocked -> readLock
startSession(l, p, c) ==
    IF l.localLock
    THEN startSessionOnIsLocked(l, p, c, Status(TRUE, p))
    ELSE [l EXCEPT !.calls[c].pc = "readFile", !.calls[c].phase = "isLocked"]

\* endSession up to its first suspension (lines 443-472); without a session
\* it is reject(session); done.call(self, DeviceSession.INVALID_SESSION, null)
endSession(l, p, c) ==
    IF l.session = Null THEN [Done(l, c, "InvalidSession", Null) EXCEPT !.ev.pr = "null"]
    ELSE LET v == validate(l, l.session)
         IN  IF isValid(l, l.session)
             THEN unlock([v EXCEPT !.calls[c].branch = 1], p, c)
             ELSE unlock([destroy(v, v.session) EXCEPT !.calls[c].branch = 2], p, c)

\* the callback the purges give to isLocked (lines 291-316, 347-372), after
\* isLocked (lines 534-543) has looked at what readLock passed
purgeOnIsLocked(l, p, c, status) ==
    IF status.kind = "null" THEN Throw(l)
    ELSE IF status.kind = "object" /\ status.locked
         THEN Done(l, c, "DeviceLocked", Null)
         ELSE [l EXCEPT !.calls[c].pc = "remove"]

\* the callback isAvailable gives to isLocked (lines 559-568), after isLocked
\* (lines 534-543) has looked at what readLock passed; ev.res is the boolean
\* the callback of isAvailable receives
isAvailableOnIsLocked(l, p, c, status) ==
    IF status.kind = "null" THEN Throw(l)
    ELSE IF status.kind = "object" /\ status.locked
         THEN Done(l, c, "false", Null)
         ELSE Done(l, c, "true", Null)

\* isAvailable up to its first suspension (lines 551-571): session.started is
\* read first, which throws a TypeError inside the promise executor when
\* session is null: the promise is rejected and done is never called. A
\* DeviceSession has no property started, so with a session isLocked is called
isAvailable(l, p, c) ==
    IF l.session = Null
    THEN [Done(l, c, "NoCallback", Null) EXCEPT !.ev.pr = "TypeError"]
    ELSE IF l.localLock
         THEN isAvailableOnIsLocked(l, p, c, Status(TRUE, p))
         ELSE [l EXCEPT !.calls[c].pc = "readFile", !.calls[c].phase = "isAvailable"]

\* readLock calls back: to isLocked, to writeLock or to the guarded template
readLockDone(l, p, c, status) ==
    CASE l.calls[c].phase = "isLocked" -> startSessionOnIsLocked(l, p, c, status)
      [] l.calls[c].phase = "isAvailable" -> isAvailableOnIsLocked(l, p, c, status)
      [] l.calls[c].phase = "purge"    -> purgeOnIsLocked(l, p, c, status)
      [] l.calls[c].phase = "lock"     -> writeLockOnReadLock(l, p, c, TRUE, status)
      [] l.calls[c].phase = "unlock"   -> writeLockOnReadLock(l, p, c, FALSE, status)
      [] OTHER                         -> guardedOnReadLock(l, p, c, status)

(***************************************************************************)
(* Steps                                                                   *)
(***************************************************************************)

NoCalls == [c \in Slots |-> Idle]

\* a process that has exited keeps no state
Exited(p) ==
    /\ UNCHANGED <<walkVars, bootVars, extVars>>
    /\ alive' = alive \ {p}
    /\ calls' = [calls EXCEPT ![p] = NoCalls]
    /\ localLock' = [localLock EXCEPT ![p] = FALSE]
    /\ session' = [session EXCEPT ![p] = Null]
    /\ objs' = [objs EXCEPT ![p] = << >>]
    /\ sessions' = [sessions EXCEPT ![p] = {}]
    /\ held' = [held EXCEPT ![p] = FALSE]
    /\ ev' = [NoEv EXCEPT !.p = p, !.op = "exit"]

\* the step of process p ends with its state as l
Commit(p, l) ==
    IF l.crash THEN Exited(p)
    ELSE /\ UNCHANGED <<walkVars, bootVars, extVars>>
         /\ alive' = alive
         /\ calls' = [calls EXCEPT ![p] = l.calls]
         /\ localLock' = [localLock EXCEPT ![p] = l.localLock]
         /\ session' = [session EXCEPT ![p] = l.session]
         /\ objs' = [objs EXCEPT ![p] = l.objs]
         /\ sessions' = [sessions EXCEPT ![p] = l.sessions]
         /\ held' = [held EXCEPT ![p] = l.held]
         /\ ev' = l.ev

\* p has fewer than n calls outstanding
HasFreeSlot(p, n) == \E c \in 1..n : calls[p][c] = Idle

FreeSlot(p, n) == CHOOSE c \in 1..n : calls[p][c] = Idle /\ \A d \in 1..(c - 1) : calls[p][d] # Idle

\* calls of p that will still construct a DeviceSession
Creating(p) == {c \in Slots : calls[p][c].op = "startSession" /\ calls[p][c].phase = "isLocked"}

Enter(p, c, op, arg) == [Local(p) EXCEPT !.calls[c] = [Idle EXCEPT !.op = op, !.arg = arg]]

\* device.startSession(done)
CallStartSession(p, n) ==
    /\ p \in alive
    /\ HasFreeSlot(p, n)
    /\ Len(objs[p]) + Cardinality(Creating(p)) < MaxSessions
    /\ Commit(p, startSession(Enter(p, FreeSlot(p, n), "startSession", Null), p, FreeSlot(p, n)))
    /\ UNCHANGED <<lockFile, now, hasRotateTo, faults>>

\* device.endSession(done)
CallEndSession(p, n) ==
    /\ p \in alive
    /\ HasFreeSlot(p, n)
    /\ Commit(p, endSession(Enter(p, FreeSlot(p, n), "endSession", Null), p, FreeSlot(p, n)))
    /\ UNCHANGED <<lockFile, now, hasRotateTo, faults>>

\* a session-guarded operation (install, launch, rotateLeft, ...) called with
\* userSession: a DeviceSession the caller has received, or Null for any other
\* value
CallGuarded(p, n) ==
    /\ p \in alive
    /\ HasFreeSlot(p, n)
    /\ \E userSession \in {Null} \cup {s \in 1..Len(objs[p]) : objs[p][s].given} :
          LET c == FreeSlot(p, n)
              l == Enter(p, c, "guarded", userSession)
              b == [l EXCEPT !.ev.bogus = (userSession = Null \/ userSession # session[p])]
          IN  Commit(p, ifBootedAndAvailableDoWithSessionOrReject(b, p, c, userSession))
    /\ UNCHANGED <<lockFile, now, hasRotateTo, faults>>

At(p, c, pcs) == p \in alive /\ calls[p][c].pc \in pcs

\* the callback of fs.readFile in readLock (lines 122-175)
ReadFile(p, c) ==
    /\ At(p, c, {"readFile"})
    /\ LET l == Local(p)
           status == ParseStatus(lockFile)
       IN  Commit(p, IF ~lockFile.exists
                     THEN [l EXCEPT !.calls[c].pc = "writeNew"]
                     ELSE IF status.locked /\ status.pid # p
                          THEN [l EXCEPT !.calls[c].pc = "getProcessPath",
                                         !.calls[c].seen = status.pid]
                          ELSE readLockDone(l, p, c, status))
    /\ UNCHANGED <<lockFile, now, hasRotateTo, faults>>

\* fs.readFile fails with an error other than ENOENT (lines 123-126)
ReadFileFails(p, c) ==
    /\ At(p, c, {"readFile"})
    /\ faults < MaxFaults
    /\ faults' = faults + 1
    /\ Commit(p, readLockDone(Local(p), p, c, StatusNull))
    /\ UNCHANGED <<lockFile, now, hasRotateTo>>

\* the callback of utils.getProcessPathByPID (lines 146-168)
GetProcessPath(p, c) ==
    /\ At(p, c, {"getProcessPath"})
    /\ LET l == Local(p)
       IN  Commit(p, IF calls[p][c].seen \in alive
                     THEN readLockDone([l EXCEPT !.calls[c].seen = 0], p, c,
                                       Status(TRUE, calls[p][c].seen))
                     ELSE [l EXCEPT !.calls[c].pc = "writeReclaim", !.calls[c].seen = 0])
    /\ UNCHANGED <<lockFile, now, hasRotateTo, faults>>

\* readLock writes '0.' + process.pid: the file did not exist (lines 128-139)
\* or its holder is not running (lines 152-162)
WriteUnlocked(p, c) ==
    /\ At(p, c, {"writeNew", "writeReclaim"})
    /\ lockFile' = Contents(FALSE, p)
    /\ Commit(p, readLockDone(Local(p), p, c, Status(FALSE, p)))
    /\ UNCHANGED <<now, hasRotateTo, faults>>

WriteUnlockedFails(p, c) ==
    /\ At(p, c, {"writeNew", "writeReclaim"})
    /\ faults < MaxFaults
    /\ faults' = faults + 1
    /\ Commit(p, readLockDone(Local(p), p, c, StatusUndefined))
    /\ UNCHANGED <<lockFile, now, hasRotateTo>>

\* the callback of fs.writeFile in writeLock (lines 209-218)
WriteFile(p, c) ==
    /\ At(p, c, {"writeFile"})
    /\ lockFile' = Contents(calls[p][c].phase = "lock", p)
    /\ Commit(p, writeLockDone(Local(p), p, c, "none"))
    /\ UNCHANGED <<now, hasRotateTo, faults>>

WriteFileFails(p, c) ==
    /\ At(p, c, {"writeFile"})
    /\ faults < MaxFaults
    /\ faults' = faults + 1
    /\ Commit(p, writeLockDone(Local(p), p, c, "IOError"))
    /\ UNCHANGED <<lockFile, now, hasRotateTo>>

\* the callback of self.isBooted in the guarded template (lines 500-513),
\* with what the backend reports: the device is booted and shut down outside
\* the control of the process. The action of rotateTo fails at once with
\* 'Invalid orientation' (Android/index.js lines 271-276)
IsBooted(p, c) ==
    /\ At(p, c, {"isBooted"})
    /\ \E isBooted \in BOOLEAN :
          LET l == [Local(p) EXCEPT !.ev.booted = IF isBooted THEN "yes" ELSE "no"]
             IN  Commit(p, IF ~isBooted THEN guardedDone(l, c, "DeviceNotBooted")
                           ELSE IF calls[p][c].op = "startSession"
                                THEN guardedDone(l, c, "InvalidOrientation")
                                ELSE [l EXCEPT !.calls[c].pc = "action"])
    /\ UNCHANGED <<lockFile, now, hasRotateTo, faults>>

\* the backend command of the action ends, with or without an error
Action(p, c) ==
    /\ At(p, c, {"action"})
    /\ \E res \in {"ok", "BackendError"} : Commit(p, guardedDone(Local(p), c, res))
    /\ UNCHANGED <<lockFile, now, hasRotateTo, faults>>

\* another device of the process starts a session: a DeviceSession that is not
\* this device's
OtherDeviceSession(p) ==
    /\ p \in alive
    /\ Len(objs[p]) + Cardinality(Creating(p)) < MaxSessions
    /\ Commit(p, newDeviceSession(Local(p), FALSE))
    /\ UNCHANGED <<lockFile, now, hasRotateTo, faults>>

\* time passes
Tick ==
    /\ now < MaxTicks * TickMs
    /\ now' = now + TickMs
    /\ ev' = NoEv
    /\ UNCHANGED <<lockFile, alive, localLock, session, objs, sessions,
                   hasRotateTo, calls, faults, held, walkVars, bootVars, extVars>>

\* a process is killed
Kill(p) ==
    /\ p \in alive
    /\ Exited(p)
    /\ UNCHANGED <<lockFile, now, hasRotateTo, faults>>

\* iOS/index.js lines 28-64: no walk, empty queue, empty cache
InitWalk ==
    /\ WALKING_SIMS = FALSE
    /\ LAST_SIM_WALK = 0
    /\ SIM_DEVICE_QUEUE = << >>
    /\ SIM_DEVICE_CACHE = {}
    /\ execs = {}
    /\ invocations = 0
    /\ answers = [r \in Requests |-> NoAnswer]

\* a boot call that has not been made: pc is where the call is suspended,
\* attempt is waitForBoot's argument, res is what the caller received; the
\* other fields are history: polls counts the isBooted calls of waitForBoot,
\* saw that one of them observed the device booted, last what the latest one
\* observed, reported what waitForBoot passed to its callback, obs what boot's
\* own isBooted observed, fault that a backend command of the call failed,
\* behind that the call was made while another was booting, overl that it
\* overlapped another call, lk that it was made with the device locked by
\* another live process, atCall that it was made with the device booted
NoBoot == [pc |-> "idle", attempt |-> 0, res |-> "-", polls |-> 0, saw |-> FALSE,
           last |-> FALSE, reported |-> "-", obs |-> "-", fault |-> FALSE,
           behind |-> FALSE, overl |-> FALSE, lk |-> FALSE, atCall |-> FALSE]

\* part_000 line 12, iOS/index.js line 115; the device is shut down
InitBoot ==
    /\ isBooting = FALSE
    /\ PATH_TO_SELECTED_XCODE = FALSE
    /\ deviceBooted = FALSE
    /\ simRunning = FALSE
    /\ spawns = 0
    /\ boots = [b \in Boots |-> NoBoot]

\* a rotation that has not been called: pc is where the call is suspended, oo
\* the local variable oo, res what the caller received; history: before is
\* the orientation when the action was started, backend how the command ended
NoRotation == [op |-> "-", pc |-> "idle", oo |-> 0, res |-> "-", before |-> 0,
               backend |-> "-"]

\* Android/index.js line 173, part_000 line 38
InitRotate ==
    /\ orientation = 0
    /\ rots = [r \in Rotations |-> NoRotation]
    /\ turns = 0

\* BaseDevice.js line 80: the constructor has created the directories
InitPurge == storage = [local |-> TRUE, temp |-> TRUE]

\* BaseDevice.js lines 687-692
REQUIRED_STATIC_METHODS == {"getAllDevices", "getAvailableDevices", "getDevicesWithName",
                            "getDeviceWithId"}

\* what a configured driver module can export: a function or not, with some of
\* the static methods, and a PLATFORM of some type
DriverModules == [isFunction : BOOLEAN, methods : SUBSET REQUIRED_STATIC_METHODS,
                  PLATFORM : {"string", "number", "undefined"}]

\* index.js lines 22-34 have not run
InitLoad ==
    /\ driver \in DriverModules
    /\ loaded = "none"

\* index.js lines 48-51: discover has not been called
InitDiscover ==
    /\ pending = {}
    /\ deviceList = << >>
    /\ count = 0
    /\ completions = << >>
    /\ expected = << >>
    /\ erred = {}

\* a walk of generateDeviceObjects that has not been started: pc is where it
\* is, devices the number of devices 'instruments -s devices' listed, udid and
\* env the udidIsOfSimulator and getEnvironmentVariables callbacks outstanding,
\* complete the local variable complete
NoGen == [pc |-> "idle", devices |-> 0, udid |-> 0, env |-> 0, complete |-> 0]

\* iOS/index.js lines 60-66: no walk of the devices has been made
InitGen ==
    /\ WALKING_DEVICES = FALSE
    /\ LAST_DEVICE_WALK = 0
    /\ DEVICE_QUEUE = << >>
    /\ gens = [w \in GenRequests |-> NoGen]
    /\ results = [r \in GenRequests |-> [res |-> "none", n |-> 0]]

NoIev == [op |-> "none", res |-> "-", arg |-> 0, kind |-> "-", was |-> {}]

\* a shutdown that has not been called: presented tells whether the caller
\* has the device's session, running the instruments running at the call
NoShutdown == [pc |-> "idle", res |-> "-", presented |-> FALSE, running |-> {}]

\* iOS/index.js line 146: var instruments = {}
InitInst ==
    /\ instruments = {}
    /\ iprocs = [i \in Instruments |-> "none"]
    /\ signalled = {}
    /\ emitted = {}
    /\ crashed = FALSE
    /\ requested = {}
    /\ iev = NoIev
    /\ shut = NoShutdown

\* BaseDevice.js line 627: BaseDevice.DEVICES = {}
InitRecords ==
    /\ DEVICES = [k \in DeviceIds |-> Null]
    /\ created = << >>
    /\ returned = [k \in DeviceIds |-> Null]

\* a waitForDeviceToFinishBooting that has not been called: pc is where the
\* call is, start the local variable start, execs the commands outstanding,
\* res what the caller received and n how often; history: isString tells
\* whether serial was a string, polled that a poll has ended, and lastOne,
\* lastErr, lastAt what the latest poll printed, whether it failed, and when
\* it ended
NoWait == [pc |-> "idle", start |-> 0, timeout |-> 0, execs |-> 0, res |-> "-", n |-> 0,
           isString |-> TRUE, polled |-> FALSE, lastOne |-> FALSE, lastErr |-> FALSE,
           lastAt |-> 0]

InitWait == wait = NoWait

InitMore == InitGen /\ InitInst /\ InitRecords /\ InitWait

\* the state in which the specifications of the device start: any one driver
InitOther ==
    /\ driver = [isFunction |-> TRUE, methods |-> REQUIRED_STATIC_METHODS, PLATFORM |-> "string"]
    /\ loaded = "none"
    /\ InitDiscover
    /\ InitMore

Init ==
    /\ InitWalk
    /\ InitBoot
    /\ InitRotate
    /\ InitPurge
    /\ InitOther
    /\ lockFile = ENOENT
    /\ alive = Procs
    /\ localLock = [p \in Procs |-> FALSE]
    /\ session = [p \in Procs |-> Null]
    /\ objs = [p \in Procs |-> << >>]
    /\ sessions = [p \in Procs |-> {}]
    /\ now = 0
    /\ hasRotateTo \in BOOLEAN
    /\ calls = [p \in Procs |-> NoCalls]
    /\ faults = 0
    /\ held = [p \in Procs |-> FALSE]
    /\ ev = NoEv

\* the other process, seen from this one: it writes the lock file
\* (writeLock line 209, readLock lines 129 and 153)
OtherProcessWrites ==
    /\ OtherProc \in alive
    /\ \E locked \in BOOLEAN : lockFile' = Contents(locked, OtherProc)
    /\ ev' = NoEv
    /\ UNCHANGED <<alive, localLock, session, objs, sessions, now,
                   hasRotateTo, calls, faults, held, walkVars, bootVars, extVars>>

\* One process in full: its sessions, the clock, the guarded operations; the
\* other process is what it does to the lock file.
Next ==
    \/ CallStartSession(ThisProc, MaxCalls)
    \/ CallEndSession(ThisProc, MaxCalls)
    \/ CallGuarded(ThisProc, MaxCalls)
    \/ \E c \in Slots : ReadFile(ThisProc, c)
    \/ \E c \in Slots : GetProcessPath(ThisProc, c)
    \/ \E c \in Slots : WriteUnlocked(ThisProc, c)
    \/ \E c \in Slots : WriteFile(ThisProc, c)
    \/ \E c \in Slots : IsBooted(ThisProc, c)
    \/ \E c \in Slots : Action(ThisProc, c)
    \/ OtherDeviceSession(ThisProc)
    \/ OtherProcessWrites
    \/ Kill(OtherProc)
    \/ Tick

Spec == Init /\ [][Next]_vars

InitLock == Init /\ ~hasRotateTo

\* Two processes in full, starting and ending sessions on a device whose class
\* has no rotateTo, with file operations that may fail.
NextLock ==
    \/ \E p \in Procs : CallStartSession(p, LockCalls(p))
    \/ \E p \in Procs : CallEndSession(p, LockCalls(p))
    \/ \E p \in Procs, c \in Slots : ReadFile(p, c)
    \/ \E p \in Procs, c \in Slots : ReadFileFails(p, c)
    \/ \E p \in Procs, c \in Slots : GetProcessPath(p, c)
    \/ \E p \in Procs, c \in Slots : WriteUnlocked(p, c)
    \/ \E p \in Procs, c \in Slots : WriteUnlockedFails(p, c)
    \/ \E p \in Procs, c \in Slots : WriteFile(p, c)
    \/ \E p \in Procs, c \in Slots : WriteFileFails(p, c)
    \/ \E p \in Procs : Kill(p)

LockSpec == InitLock /\ [][NextLock]_vars

(***************************************************************************)
(* Properties                                                              *)
(***************************************************************************)

\* the token the session was created with
OriginalToken(s) == s

\* the session's token is in the registry
Registered(p, s) == objs[p][s].token # Null /\ objs[p][s].token \in sessions[p]

Unexpired(p, s) == now - objs[p][s].lastUsed < timeout

\* registered, unexpired, undestroyed
Live(p, s) == Registered(p, s) /\ Unexpired(p, s)

\* the live sessions of the device in process p
LiveSessions(p) == {s \in 1..Len(objs[p]) : objs[p][s].own /\ Live(p, s)}

\* the live processes that completed lock() and have not completed unlock() since
Holders == {p \in alive : held[p]}

\* C1: at most one live process at a time has acquired the device's lock
C1_MutualExclusion == Cardinality(Holders) <= 1

C3_BogusTokenInvalidSession ==
    (ev.op = "guarded" /\ ev.bogus) => ev.res = "InvalidSession"

\* C4: validate returns true exactly when the session's token is registered
\* and now - lastUsed < timeout; when it returns true lastUsed becomes now, and
\* when it returns false the session has been destroyed (its token is null)
C4_Validate ==
    [][ev'.val # "-" =>
          LET p == ev'.p
              s == ev'.vs
          IN  /\ (ev'.val = "true") <=> (Registered(p, s) /\ Unexpired(p, s))
              /\ ev'.val = "true" => objs'[p][s].lastUsed = now' /\ objs'[p][s].token = objs[p][s].token
              /\ ev'.val = "false" => objs'[p][s].token = Null]_vars

\* validate has just returned false for a registered session that had gone
\* unused for exactly timeout, and destroyed it
C4_Witness ==
    /\ ev.val = "false" /\ ev.vs = 1 /\ ev.was # Null
    /\ now - objs[ThisProc][1].lastUsed = timeout
    /\ objs[ThisProc][1].token = Null

\* the session has gone unused for timeout or longer
Stale(p, s) == s \in 1..Len(objs[p]) /\ ~Unexpired(p, s)

\* in this step process p calls a guarded operation with session s
GuardedCalled(p, s) ==
    \/ ev'.op = "guarded" /\ ev'.p = p /\ ev'.arg = s /\ calls' = calls
    \/ \E c \in Slots : calls[p][c] = Idle /\ calls'[p][c].op = "guarded" /\ calls'[p][c].arg = s

\* C5: an operation presented with a session of the device that has gone
\* unused for timeout or longer fails with InvalidSession, however late and
\* however often
C5_StaleSessionInvalidSession ==
    [][\A p \in Procs : \A s \in 1..Len(objs[p]) :
          (objs[p][s].own /\ Stale(p, s) /\ GuardedCalled(p, s))
              => (ev'.op = "guarded" /\ ev'.res = "InvalidSession")]_vars

\* C6: after destroy, getSessionByToken called with the token the session was
\* created with returns null
C6_DestroyedNotInRegistry ==
    \A p \in Procs : \A s \in 1..Len(objs[p]) :
        objs[p][s].token = Null => getSessionByToken(Local(p), OriginalToken(s)) = Null

\* C7: while a live session started by this process exists, a startSession
\* that is refused is refused as session-already-started
C7_RefusedAsAlreadyStarted ==
    (ev.op = "startSession" /\ ev.res # "ok" /\ held[ev.p] /\ LiveSessions(ev.p) # {})
        => ev.res = "SessionAlreadyStarted"

\* C8: a lock attempt that finds the file locked by another live process ends
\* with the locked-by-another error and changes neither the file nor
\* localLock; one that finds the file locked by its own process goes on to
\* write, and its write succeeds and leaves the file as it was; no lock
\* attempt skips the read while another live process has the file locked
C8_Acquire ==
    [][\A p \in Procs : \A c \in Slots :
          LET call == calls[p][c]
              moved == p \in alive' /\ calls'[p][c] # call /\ faults' = faults
          IN  /\ ( /\ call.phase = "lock" /\ call.pc = "getProcessPath" /\ moved
                   /\ call.seen \in alive /\ lockFile = Contents(TRUE, call.seen) )
                 => /\ ev'.op = "startSession" /\ ev'.res = "LockedByAnother"
                    /\ ev'.lk = "lock-failed"
                    /\ lockFile' = lockFile /\ localLock'[p] = localLock[p]
              /\ ( /\ call.phase = "lock" /\ call.pc = "readFile" /\ moved
                   /\ lockFile = Contents(TRUE, p) )
                 => /\ calls'[p][c].pc = "writeFile" /\ calls'[p][c].phase = "lock"
                    /\ lockFile' = lockFile /\ localLock'[p]
              /\ ( /\ call.phase = "lock" /\ call.pc = "writeFile" /\ moved
                   /\ lockFile = Contents(TRUE, p) )
                 => /\ ev'.lk = "locked" /\ ev'.res \in {"ok", "-"}
                    /\ lockFile' = lockFile
              /\ ( /\ call.phase # "lock" /\ calls'[p][c].phase = "lock"
                   /\ calls'[p][c].pc = "writeFile" )
                 => ~\E q \in alive \ {p} : lockFile' = Contents(TRUE, q)]_vars

\* C9: a startSession that finds the pid recorded in the lock file not
\* running, in a process that holds no lock and has no other call in flight,
\* is not refused: it goes on to acquire the lock
C9_StaleLockReclaimed ==
    [][\A p \in Procs : \A c \in Slots :
          ( /\ calls[p][c].op = "startSession" /\ calls[p][c].phase = "isLocked"
            /\ calls[p][c].pc = "writeReclaim" /\ ~held[p]
            /\ \A d \in Slots \ {c} : calls[p][d] = Idle
            /\ p \in alive' /\ calls'[p][c] # calls[p][c] /\ faults' = faults )
          => calls'[p][c].phase = "lock"]_vars

\* C10: a release never overwrites the lock file while it records the lock as
\* held by another live process (here: a release by a process with no other
\* call in flight)
C10_ReleaseKeepsForeignLock ==
    [][(ev'.lk = "unlocked" /\ faults' = 0 /\ calls'[ev'.p] = NoCalls)
        => ~(lockFile.exists /\ lockFile.locked = 1
             /\ lockFile.pid # ev'.p /\ lockFile.pid \in alive)]_vars

\* C11: a guarded operation whose lock check reads the lock file goes on (to
\* isBooted and the backend action) only when the file records the lock as
\* held by the calling process
C11_ActionOnlyUnderOwnLock ==
    [][\A p \in Procs : \A c \in Slots :
          ( /\ calls[p][c].op = "guarded" /\ calls[p][c].pc = "readFile"
            /\ calls'[p][c].pc = "isBooted" )
          => lockFile = Contents(TRUE, p)]_vars

\* C12: a guarded operation that finds the device not booted ends with the
\* device-not-booted error and does not run its action, and one called with a
\* session that is not valid ends with InvalidSession whatever the device's
\* state
C12_NotBootedAndOrder ==
    [][/\ \A p \in Procs : \A c \in Slots :
             ( (calls[p][c].op = "guarded" /\ calls[p][c].pc = "isBooted" /\ ev'.booted = "no")
               => (calls'[p][c] = Idle /\ ev'.op = "guarded" /\ ev'.res = "DeviceNotBooted") )
        /\ ( (ev'.op = "guarded" /\ (ev'.bogus \/ ev'.val = "false"))
             => ev'.res = "InvalidSession" )]_vars

(***************************************************************************)
(* Discovery: iOSDevice.getSimulatorDeviceStatuses.  generateDeviceObjects *)
(* (iOS/index.js 463-550), AndroidDevice.listRunningDevices                *)
(* (Android/index.js 846-1004) and getAvailableSimulators (1152-1243) are  *)
(* built on the same test, queue and flag.                                 *)
(***************************************************************************)

\* iOS/index.js line 391: !WALKING_SIMS || (Date.now() - LAST_SIM_WALK > REFRESH_TIMEOUT)
startsWalk == ~WALKING_SIMS \/ (now - LAST_SIM_WALK > REFRESH_TIMEOUT)

\* request r calls getSimulatorDeviceStatuses (lines 386-449, synchronous part)
getSimulatorDeviceStatuses(r) ==
    /\ answers[r].res = "none"
    /\ IF startsWalk
       THEN /\ WALKING_SIMS' = TRUE
            /\ LAST_SIM_WALK' = now
            /\ SIM_DEVICE_CACHE' = {}
            /\ SIM_DEVICE_QUEUE' = Append(SIM_DEVICE_QUEUE, r)
            /\ invocations' = invocations + 1
            /\ execs' = execs \cup {invocations + 1}
            /\ answers' = [answers EXCEPT ![r].res = "queued"]
       ELSE IF ~WALKING_SIMS
            THEN /\ answers' = [answers EXCEPT ![r] = [res |-> "ok", snap |-> SIM_DEVICE_CACHE, walk |-> 0]]
                 /\ UNCHANGED <<WALKING_SIMS, LAST_SIM_WALK, SIM_DEVICE_QUEUE,
                                SIM_DEVICE_CACHE, execs, invocations>>
            ELSE /\ SIM_DEVICE_QUEUE' = Append(SIM_DEVICE_QUEUE, r)
                 /\ answers' = [answers EXCEPT ![r].res = "queued"]
                 /\ UNCHANGED <<WALKING_SIMS, LAST_SIM_WALK, SIM_DEVICE_CACHE,
                                execs, invocations>>
    /\ UNCHANGED <<devVars, now, bootVars, extVars>>

\* the requests in the queue
Queued == {SIM_DEVICE_QUEUE[i] : i \in 1..Len(SIM_DEVICE_QUEUE)}

\* the callback of exec('xcrun simctl list') for walk w (lines 400-438): with
\* an error every queued request is rejected, otherwise the output is put into
\* the cache object and every queued request is resolved with it
ExecCallback(w) ==
    /\ w \in execs
    /\ execs' = execs \ {w}
    /\ \E err \in BOOLEAN :
          IF err
          THEN /\ answers' = [r \in Requests |->
                                 IF r \in Queued
                                 THEN [res |-> "err", snap |-> {}, walk |-> w]
                                 ELSE answers[r]]
               /\ UNCHANGED SIM_DEVICE_CACHE
          ELSE /\ SIM_DEVICE_CACHE' = SIM_DEVICE_CACHE \cup {w}
               /\ answers' = [r \in Requests |->
                                 IF r \in Queued
                                 THEN [res |-> "ok", snap |-> SIM_DEVICE_CACHE', walk |-> w]
                                 ELSE answers[r]]
    /\ SIM_DEVICE_QUEUE' = << >>
    /\ WALKING_SIMS' = FALSE
    /\ UNCHANGED <<devVars, now, bootVars, extVars, LAST_SIM_WALK, invocations>>

\* time passes
WalkTick ==
    /\ now < MaxWalkTicks * WalkTickMs
    /\ now' = now + WalkTickMs
    /\ UNCHANGED <<devVars, walkVars, bootVars, extVars>>

InitWalkSpec == Init /\ ~hasRotateTo

\* Requests for the simulator list arrive at any time; a walk takes any time.
NextWalk ==
    \/ \E r \in Requests : getSimulatorDeviceStatuses(r)
    \/ \E w \in 1..MaxRequests : ExecCallback(w)
    \/ WalkTick

WalkSpec == InitWalkSpec /\ [][NextWalk]_vars

\* request r arrives in this step
Arrives(r) == answers[r].res = "none" /\ answers'[r].res # "none"

\* C13: at most one 'xcrun simctl list' is outstanding at any time
C13_SingleFlight == Cardinality(execs) <= 1

\* C14: a request that arrives while a walk is outstanding starts no further
\* exec, and when a walk completes every queued request is answered, all with
\* the same outcome
C14_OneInvocationSameOutcome ==
    [][/\ \A r \in Requests :
             (Arrives(r) /\ execs # {}) => invocations' = invocations
       /\ (execs' # execs /\ invocations' = invocations)
             => \A r1, r2 \in Requests :
                    (answers[r1].res = "queued" /\ answers[r2].res = "queued")
                    => /\ answers'[r1].res \in {"ok", "err"}
                       /\ answers'[r1] = answers'[r2]]_vars

\* C15: a request that arrives while no walk is outstanding and less than
\* REFRESH_TIMEOUT after the previous walk was started is answered at once
\* from the cache and starts no walk
C15_FreshCacheServed ==
    [][\A r \in Requests :
          ( /\ Arrives(r) /\ execs = {} /\ invocations > 0
            /\ now - LAST_SIM_WALK < REFRESH_TIMEOUT )
          => (invocations' = invocations /\ answers'[r].res = "ok")]_vars

(***************************************************************************)
(* Boot: iOSSimulatorDevice.boot and waitForBoot (part_000).               *)
(***************************************************************************)

\* the call has been made and its promise is not settled
InFlight(b) == boots[b].pc \notin {"idle", "done"}

\* the call has taken the branch of boot that starts the Simulator (lines
\* 345-391) and is not settled
Booting(b) == boots[b].pc \in {"getXCodePath", "poll", "timer", "getenv", "focus", "postDelay"}

\* the .lock file says locked by the other process, and that process lives
LockedByOther == lockFile = Contents(TRUE, OtherProc) /\ OtherProc \in alive

\* device.boot(done), lines 339-344: self.isBooted is called
CallBoot(b) ==
    /\ boots[b].pc = "idle"
    /\ \A a \in 1..(b - 1) : boots[a].pc # "idle"
    /\ boots' = [a \in Boots |->
                    IF a = b
                    THEN [NoBoot EXCEPT !.pc = "isBooted",
                                        !.behind = \E o \in Boots \ {b} : Booting(o),
                                        !.overl = \E o \in Boots \ {b} : InFlight(o),
                                        !.lk = LockedByOther,
                                        !.atCall = deviceBooted]
                    ELSE IF InFlight(a) THEN [boots[a] EXCEPT !.overl = TRUE]
                         ELSE boots[a]]
    /\ UNCHANGED <<devVars, now, walkVars, extVars, isBooting, PATH_TO_SELECTED_XCODE,
                   deviceBooted, simRunning, spawns>>

\* lines 355-365: the Simulator has been spawned; waitForBoot(10, ...) sets
\* attempt to 0 and calls self.isBooted
waitForBoot(r) == [r EXCEPT !.pc = "poll", !.attempt = 0]

\* the callback that boot passes to self.isBooted (lines 344-421), err being
\* the error of 'xcrun simctl list'; with the XCode path already known
\* getXCodePath calls back at once (iOS/index.js lines 660-663)
BootOnIsBooted(b) ==
    /\ boots[b].pc = "isBooted"
    /\ \E err \in BOOLEAN :
          LET booted == ~err /\ deviceBooted
              r == [boots[b] EXCEPT !.obs = IF err THEN "err"
                                            ELSE IF booted THEN "booted" ELSE "shutdown",
                                    !.fault = @ \/ err]
          IN  IF ~booted /\ ~isBooting
              THEN /\ isBooting' = TRUE
                   /\ IF PATH_TO_SELECTED_XCODE
                      THEN /\ boots' = [boots EXCEPT ![b] = waitForBoot(r)]
                           /\ spawns' = spawns + 1
                           /\ simRunning' = TRUE
                      ELSE /\ boots' = [boots EXCEPT ![b] = [r EXCEPT !.pc = "getXCodePath"]]
                           /\ UNCHANGED <<spawns, simRunning>>
              ELSE /\ boots' = [boots EXCEPT ![b] = [r EXCEPT !.pc = "mapUDIDs"]]
                   /\ UNCHANGED <<isBooting, spawns, simRunning>>
    /\ UNCHANGED <<devVars, now, walkVars, extVars, PATH_TO_SELECTED_XCODE, deviceBooted>>

\* the callback of 'xcode-select -p' (iOS/index.js lines 647-658) and of
\* getXCodePath in boot (lines 349-365)
OnXCodePath(b) ==
    /\ boots[b].pc = "getXCodePath"
    /\ \E err \in BOOLEAN :
          IF err
          THEN /\ boots' = [boots EXCEPT ![b] = [@ EXCEPT !.pc = "done", !.res = "Error",
                                                         !.fault = TRUE]]
               /\ UNCHANGED <<PATH_TO_SELECTED_XCODE, spawns, simRunning>>
          ELSE /\ PATH_TO_SELECTED_XCODE' = TRUE
               /\ boots' = [boots EXCEPT ![b] = waitForBoot(@)]
               /\ spawns' = spawns + 1
               /\ simRunning' = TRUE
    /\ UNCHANGED <<devVars, now, walkVars, extVars, isBooting, deviceBooted>>

\* waitForBoot calls done (lines 99, 108), which is boot's callback
\* function (err) of lines 365-389: with an error boot is rejected, otherwise
\* getEnvironmentVariables is called
waitForBootDone(r, err, booted) ==
    [r EXCEPT !.reported = IF booted THEN "true" ELSE "false",
              !.pc = IF err THEN "done" ELSE "getenv",
              !.res = IF err THEN "Error" ELSE @]

\* the callback that waitForBoot passes to self.isBooted (lines 97-110)
WaitForBootOnIsBooted(b) ==
    /\ boots[b].pc = "poll"
    /\ \E err \in BOOLEAN :
          LET booted == ~err /\ deviceBooted
              r == [boots[b] EXCEPT !.polls = @ + 1, !.saw = @ \/ booted,
                                    !.last = booted, !.fault = @ \/ err]
          IN  boots' = [boots EXCEPT ![b] =
                           IF r.attempt < BootAttempts
                           THEN IF ~err /\ booted
                                THEN waitForBootDone(r, FALSE, TRUE)
                                ELSE [r EXCEPT !.pc = "timer"]
                           ELSE waitForBootDone(r, err, FALSE)]
    /\ UNCHANGED <<devVars, now, walkVars, extVars, isBooting, PATH_TO_SELECTED_XCODE,
                   deviceBooted, simRunning, spawns>>

\* the timer of lines 103-105 fires: waitForBoot(attempts, done, ++attempt)
Timer(b) ==
    /\ boots[b].pc = "timer"
    /\ boots' = [boots EXCEPT ![b] = [@ EXCEPT !.attempt = @ + 1, !.pc = "poll"]]
    /\ UNCHANGED <<devVars, now, walkVars, extVars, isBooting, PATH_TO_SELECTED_XCODE,
                   deviceBooted, simRunning, spawns>>

\* the last 'xcrun simctl getenv' of getEnvironmentVariables calls back
\* (lines 136-143: done is called with a null error whatever the commands
\* returned), and boot runs osascript (lines 372-380)
OnEnvironmentVariables(b) ==
    /\ boots[b].pc = "getenv"
    /\ boots' = [boots EXCEPT ![b] = [@ EXCEPT !.pc = "focus"]]
    /\ UNCHANGED <<devVars, now, walkVars, extVars, isBooting, PATH_TO_SELECTED_XCODE,
                   deviceBooted, simRunning, spawns>>

\* the callback of osascript (lines 380-386 and 404-410)
OnFocus(b) ==
    /\ boots[b].pc \in {"focus", "focusRunning"}
    /\ isBooting' = FALSE
    /\ boots' = [boots EXCEPT ![b] = [@ EXCEPT !.pc = IF @ = "focus" THEN "postDelay"
                                                              ELSE "zeroDelay"]]
    /\ UNCHANGED <<devVars, now, walkVars, extVars, PATH_TO_SELECTED_XCODE,
                   deviceBooted, simRunning, spawns>>

\* the timer of lines 382-385 or 406-409 fires: resolve(null)
Resolve(b) ==
    /\ boots[b].pc \in {"postDelay", "zeroDelay"}
    /\ boots' = [boots EXCEPT ![b] = [@ EXCEPT !.pc = "done", !.res = "ok"]]
    /\ UNCHANGED <<devVars, now, walkVars, extVars, isBooting, PATH_TO_SELECTED_XCODE,
                   deviceBooted, simRunning, spawns>>

\* the callback of mapUDIDSToRunningSimulators (lines 396-418); pgrep and
\* ps find the Simulator process of the device if there is one
OnMapping(b) ==
    /\ boots[b].pc = "mapUDIDs"
    /\ \E err \in BOOLEAN :
          boots' = [boots EXCEPT ![b] =
                       IF err
                       THEN [@ EXCEPT !.pc = "done", !.res = "Error", !.fault = TRUE]
                       ELSE IF simRunning
                            THEN [@ EXCEPT !.pc = "focusRunning"]
                            ELSE [@ EXCEPT !.pc = "done",
                                           !.res = IF isBooting THEN "DeviceNotReady"
                                                   ELSE "DeviceAlreadyBooted"]]
    /\ UNCHANGED <<devVars, now, walkVars, extVars, isBooting, PATH_TO_SELECTED_XCODE,
                   deviceBooted, simRunning, spawns>>

\* the device boots or shuts down, a Simulator process starts or exits
DeviceStatus ==
    /\ \E d, s \in BOOLEAN :
          /\ <<d, s>> # <<deviceBooted, simRunning>>
          /\ deviceBooted' = d
          /\ simRunning' = s
    /\ UNCHANGED <<devVars, now, walkVars, extVars, isBooting, PATH_TO_SELECTED_XCODE,
                   spawns, boots>>

\* the other process locks or unlocks the device between the boot calls
OtherProcessLocks ==
    /\ \A b \in Boots : ~InFlight(b)
    /\ OtherProcessWrites

\* the other process exits between the boot calls while the file says that it
\* holds the lock, which leaves a stale lock
OtherProcessDies ==
    /\ \A b \in Boots : ~InFlight(b)
    /\ LockedByOther
    /\ Kill(OtherProc)

InitBootSpec == Init /\ ~hasRotateTo

\* One process calls boot on an iOS simulator; the simulator and the lock of
\* the device change outside its control.
NextBoot ==
    \/ \E b \in Boots : CallBoot(b)
    \/ \E b \in Boots : BootOnIsBooted(b)
    \/ \E b \in Boots : OnXCodePath(b)
    \/ \E b \in Boots : WaitForBootOnIsBooted(b)
    \/ \E b \in Boots : Timer(b)
    \/ \E b \in Boots : OnEnvironmentVariables(b)
    \/ \E b \in Boots : OnFocus(b)
    \/ \E b \in Boots : Resolve(b)
    \/ \E b \in Boots : OnMapping(b)
    \/ DeviceStatus
    \/ OtherProcessLocks
    \/ OtherProcessDies

BootSpec == InitBootSpec /\ [][NextBoot]_vars

\* the promise of call b is settled in this step
Settles(b) == boots[b].pc # "done" /\ boots'[b].pc = "done"

\* call b spawns the Simulator in this step
Spawns(b) == boots[b].pc \in {"isBooted", "getXCodePath"} /\ boots'[b].pc = "poll"

\* C16: a boot call made while another call is booting the device, and being
\* served while that call is still booting it, spawns no Simulator and, unless
\* one of its backend commands fails, ends with the device-not-ready error
C16_DoubleBootGuard ==
    [][\A b \in Boots :
          (boots[b].behind /\ \E o \in Boots \ {b} : Booting(o))
          => /\ ~Spawns(b)
             /\ (Settles(b) /\ ~boots'[b].fault) => boots'[b].res = "DeviceNotReady"]_vars

\* C17: a boot whose polls never observed the device booted does not resolve
\* successfully
C17_BootDeadline ==
    [][\A b \in Boots :
          (Settles(b) /\ boots'[b].polls > 0 /\ ~boots'[b].saw)
          => boots'[b].res # "ok"]_vars

\* C18: waitForBoot makes no more polls than the attempts it was given, and
\* does not report false when its last poll observed the device booted
C18_FinalAttemptGoverns ==
    \A b \in Boots :
       /\ boots[b].polls <= BootAttempts
       /\ boots[b].reported = "false" => ~boots[b].last

\* C19: a boot called and served while the device is locked by another live
\* process spawns nothing and ends with the device-locked error, and no other
\* boot ends with the device-locked error
C19_BootRefusedIffLockedByOther ==
    [][\A b \in Boots :
          /\ (boots[b].lk /\ LockedByOther)
                => (~Spawns(b) /\ (Settles(b) => boots'[b].res = "DeviceLocked"))
          /\ (Settles(b) /\ boots'[b].res = "DeviceLocked") => boots[b].lk]_vars

\* C20: a boot called on a booted device, finding it booted, while no other
\* boot call is in flight ends, unless one of its backend commands fails,
\* with the device-already-booted error
C20_AlreadyBooted ==
    [][\A b \in Boots :
          ( /\ Settles(b) /\ boots[b].atCall /\ boots[b].obs = "booted"
            /\ ~boots[b].overl /\ ~boots'[b].fault )
          => boots'[b].res = "DeviceAlreadyBooted"]_vars

(***************************************************************************)
(* Rotation: rotateLeft and rotateRight of AndroidDevice (Android/index.js *)
(* 237-258, 301-322) and of iOSSimulatorDevice (part_000 453-483, with     *)
(* executeJXACommand, 78-85).  hasRotateTo tells the Android device from   *)
(* the iOS simulator.                                                      *)
(***************************************************************************)

\* orientation--; if(orientation < 0) orientation = 3;
decrement(o) == IF o - 1 < 0 THEN 3 ELSE o - 1

\* orientation++; if(orientation > 3) orientation = 0;
increment(o) == IF o + 1 > 3 THEN 0 ELSE o + 1

rotate(op, o) == IF op = "rotateLeft" THEN decrement(o) ELSE increment(o)

\* the guarded template has accepted the session, the lock and the boot
\* state, and runs the action of rotateLeft or rotateRight: the Android
\* device saves the orientation in oo, changes it and runs adb (lines 242-245,
\* 306-309); the simulator runs osascript (lines 455-457, 474-476)
StartRotation(r) ==
    /\ rots[r].pc = "idle"
    /\ \A q \in 1..(r - 1) : rots[q].pc # "idle"
    /\ \E op \in {"rotateLeft", "rotateRight"} :
          /\ rots' = [rots EXCEPT ![r] = [NoRotation EXCEPT !.op = op, !.pc = "exec",
                                                            !.oo = orientation,
                                                            !.before = orientation]]
          /\ orientation' = IF hasRotateTo THEN rotate(op, orientation) ELSE orientation
    /\ UNCHANGED <<devVars, now, walkVars, bootVars, purgeVars, loadVars, discVars, moreVars, turns>>

\* what executeJXACommand passes as the first argument of its callback
\* (line 83): done.call(err || new Error(stderr)) passes nothing, and
\* done.call(iOSDevice, stdout) passes the output of the command
JXAFirstArgument(failed, stdout) == IF failed THEN "undefined" ELSE stdout

\* JavaScript truthiness of that argument
Truthy(v) == v \notin {"undefined", ""}

\* the value of the tracked orientation when rotation r has completed
orientationAfter(r, failed, stdout) ==
    IF hasRotateTo
    THEN IF failed THEN rots[r].oo ELSE orientation
    ELSE IF Truthy(JXAFirstArgument(failed, stdout)) THEN orientation
         ELSE rotate(rots[r].op, orientation)

\* what the callback and the promise of rotation r receive
rotationResult(failed, stdout) ==
    IF hasRotateTo
    THEN IF failed THEN "Error" ELSE "ok"
    ELSE IF Truthy(JXAFirstArgument(failed, stdout)) THEN "Error" ELSE "ok"

\* the backend command of rotation r ends: the callback of exec in the Android
\* device (lines 245-256, 309-320), the callback of executeJXACommand in the
\* simulator (lines 457-462, 476-481)
RotationDone(r) ==
    /\ rots[r].pc = "exec"
    /\ \E failed \in BOOLEAN, stdout \in {"", "output"} :
          /\ orientation' = orientationAfter(r, failed, stdout)
          /\ rots' = [rots EXCEPT ![r] = [@ EXCEPT !.pc = "done",
                                                   !.res = rotationResult(failed, stdout),
                                                   !.backend = IF failed THEN "failed" ELSE "ok"]]
          /\ turns' = IF rotationResult(failed, stdout) = "ok"
                      THEN rotate(rots[r].op, turns) ELSE turns
    /\ UNCHANGED <<devVars, now, walkVars, bootVars, purgeVars, loadVars, discVars, moreVars>>

\* A session holder rotates an Android device or an iOS simulator, without
\* waiting for one rotation to complete before calling the next.
NextRotate ==
    \/ \E r \in Rotations : StartRotation(r)
    \/ \E r \in Rotations : RotationDone(r)

RotateSpec == Init /\ [][NextRotate]_vars

\* rotation r completes in this step
Completes(r) == rots[r].pc = "exec" /\ rots'[r].pc = "done"

\* C21: a rotation whose backend command failed reports the failure and
\* leaves the tracked orientation at its value before the call
C21_FailedRotationReverts ==
    [][\A r \in Rotations :
          (Completes(r) /\ rots'[r].backend = "failed")
          => (rots'[r].res = "Error" /\ orientation' = rots[r].before)]_vars

\* C22: the tracked orientation is in 0..3 and, when no rotation is
\* outstanding, is the start value moved by the rotations that reported
\* success: one step down mod 4 for each rotateLeft, one up for each rotateRight
C22_CounterModulo4 ==
    /\ orientation \in 0..3
    /\ (\A r \in Rotations : rots[r].pc # "exec") => orientation = turns

(***************************************************************************)
(* BaseDevice: purgeLocalStorage and purgeTempStorage (lines 279-379)      *)
(***************************************************************************)

Purges == {"purgeLocalStorage", "purgeTempStorage"}

\* device.purgeLocalStorage(done), device.purgeTempStorage(done): self.isBooted
\* is called
CallPurge(p, n) ==
    /\ p \in alive
    /\ HasFreeSlot(p, n)
    /\ \E op \in Purges :
          Commit(p, [Enter(p, FreeSlot(p, n), op, Null)
                        EXCEPT !.calls[FreeSlot(p, n)].pc = "purgeIsBooted",
                               !.calls[FreeSlot(p, n)].phase = "purge"])
    /\ UNCHANGED <<lockFile, now, hasRotateTo, faults>>

\* the callback the purges give to self.isBooted (lines 284-318, 340-374):
\* with an error the promise is rejected with the variable e, which is never
\* assigned; otherwise isLocked is called, which calls readLock
PurgeOnIsBooted(p, c) ==
    /\ At(p, c, {"purgeIsBooted"})
    /\ \E err, booted \in BOOLEAN :
          LET l == [Local(p) EXCEPT !.ev.booted = IF err THEN "-"
                                                  ELSE IF booted THEN "yes" ELSE "no"]
          IN  Commit(p, IF err THEN [Done(l, c, "undefined", Null) EXCEPT !.ev.pr = "undefined"]
                        ELSE IF booted THEN Done(l, c, "DeviceBooted", Null)
                        ELSE IF l.localLock
                             THEN purgeOnIsLocked(l, p, c, Status(TRUE, p))
                             ELSE [l EXCEPT !.calls[c].pc = "readFile"])
    /\ UNCHANGED <<lockFile, now, hasRotateTo, faults>>

\* the callback of fs.remove with an error (lines 298-301, 354-357), and of
\* fs.mkdirs with an error (lines 304-307, 360-363)
PurgeFails(p, c) ==
    /\ At(p, c, {"remove", "mkdirs"})
    /\ faults < MaxFaults
    /\ faults' = faults + 1
    /\ Commit(p, Done(Local(p), c, "IOError", Null))
    /\ UNCHANGED <<lockFile, now, hasRotateTo>>

\* fs.remove(self.localStorage) removes the directory with the .lock file and
\* the temp directory in it, fs.remove(self.tempStorage) the temp directory;
\* the callback calls fs.mkdirs(self.tempStorage) (lines 297-303, 353-359)
Remove(p, c) ==
    /\ At(p, c, {"remove"})
    /\ IF calls[p][c].op = "purgeLocalStorage"
       THEN /\ storage' = [local |-> FALSE, temp |-> FALSE]
            /\ lockFile' = ENOENT
       ELSE /\ storage' = [storage EXCEPT !.temp = FALSE]
            /\ lockFile' = lockFile
    /\ calls' = [calls EXCEPT ![p][c].pc = "mkdirs"]
    /\ ev' = [NoEv EXCEPT !.p = p, !.op = "remove"]
    /\ UNCHANGED <<alive, localLock, session, objs, sessions, now, hasRotateTo,
                   faults, held, walkVars, bootVars, rotVars, loadVars, discVars, moreVars>>

\* fs.mkdirs(self.tempStorage) has made the directory and those above it; the
\* purge resolves (lines 303-311, 359-367)
Mkdirs(p, c) ==
    /\ At(p, c, {"mkdirs"})
    /\ storage' = [local |-> TRUE, temp |-> TRUE]
    /\ calls' = [calls EXCEPT ![p][c] = Idle]
    /\ ev' = [NoEv EXCEPT !.p = p, !.op = calls[p][c].op, !.res = "ok"]
    /\ UNCHANGED <<lockFile, alive, localLock, session, objs, sessions, now,
                   hasRotateTo, faults, held, walkVars, bootVars, rotVars, loadVars, discVars, moreVars>>

\* the .lock file is written in the directory of the device
WriteUnlockedInStorage(p, c) == storage.local /\ WriteUnlocked(p, c)

WriteFileInStorage(p, c) == storage.local /\ WriteFile(p, c)

OtherProcessWritesInStorage == storage.local /\ OtherProcessWrites

\* One process purges the storage of a device and starts and ends sessions on
\* it, while the other process locks and unlocks the device.
NextPurge ==
    \/ CallPurge(ThisProc, MaxCalls)
    \/ CallStartSession(ThisProc, MaxCalls)
    \/ CallEndSession(ThisProc, MaxCalls)
    \/ \E c \in Slots : PurgeOnIsBooted(ThisProc, c)
    \/ \E c \in Slots : ReadFile(ThisProc, c)
    \/ \E c \in Slots : GetProcessPath(ThisProc, c)
    \/ \E c \in Slots : WriteUnlockedInStorage(ThisProc, c)
    \/ \E c \in Slots : WriteFileInStorage(ThisProc, c)
    \/ \E c \in Slots : Remove(ThisProc, c)
    \/ \E c \in Slots : Mkdirs(ThisProc, c)
    \/ \E c \in Slots : PurgeFails(ThisProc, c)
    \/ OtherProcessWritesInStorage
    \/ Kill(OtherProc)

PurgeSpec == InitLock /\ [][NextPurge]_vars

\* the .lock file says locked by a process that lives
LockHeld == lockFile.exists /\ lockFile.locked = 1 /\ lockFile.pid \in alive

\* C23: no directory of the device is removed while its lock is held, a purge
\* that found the device booted fails, and when a purge has succeeded the
\* temp directory exists
C23_NoPurgeUnderLock ==
    [][/\ ((storage.local /\ ~storage'.local) \/ (storage.temp /\ ~storage'.temp))
             => ~LockHeld
       /\ (ev'.op \in Purges /\ ev'.booted = "yes") => ev'.res = "DeviceBooted"
       /\ (ev'.op \in Purges /\ ev'.res = "ok") => storage'.temp]_vars

(***************************************************************************)
(* Callback and promise                                                    *)
(***************************************************************************)

\* the error a completion callback sees in its first argument: undefined is
\* no error
CallbackError(e) == IF e.res \in {"ok", "undefined"} THEN "ok" ELSE e.res

\* C24: when a call of the device completes, its promise is rejected exactly
\* if its callback receives an error, and with that error
C24_CallbackAndPromiseAgree ==
    (ev.op \in {"startSession", "endSession", "guarded"} /\ ev.res # "-")
    => ev.pr = CallbackError(ev)

(***************************************************************************)
(* index.js: loading the drivers                                           *)
(***************************************************************************)

\* BaseDevice.deviceTypeIsValid (BaseDevice.js lines 749-765): false for what
\* is not a function, otherwise the array missing
deviceTypeIsValid(deviceClass) ==
    IF ~deviceClass.isFunction
    THEN [isArray |-> FALSE, missing |-> {}]
    ELSE [isArray |-> TRUE,
          missing |-> {<<"Method", m>> : m \in REQUIRED_STATIC_METHODS \ deviceClass.methods}
                      \cup (IF deviceClass.PLATFORM # "string"
                            THEN {<<"Property", "PLATFORM">>} ELSE {})]

\* JavaScript truthiness of what deviceTypeIsValid returns: false is falsy,
\* every array is truthy
TruthyResult(v) == v.isArray

\* index.js lines 22-34: the driver is registered or the load throws
LoadDriver ==
    /\ loaded = "none"
    /\ loaded' = IF TruthyResult(deviceTypeIsValid(driver)) THEN "registered" ELSE "throws"
    /\ UNCHANGED <<devVars, now, walkVars, bootVars, rotVars, purgeVars, driver, discVars, moreVars>>

InitLoadSpec ==
    /\ InitWalk /\ InitBoot /\ InitRotate /\ InitPurge /\ InitLoad /\ InitDiscover
    /\ InitMore
    /\ lockFile = ENOENT
    /\ alive = Procs
    /\ localLock = [p \in Procs |-> FALSE]
    /\ session = [p \in Procs |-> Null]
    /\ objs = [p \in Procs |-> << >>]
    /\ sessions = [p \in Procs |-> {}]
    /\ now = 0
    /\ hasRotateTo = FALSE
    /\ calls = [p \in Procs |-> NoCalls]
    /\ faults = 0
    /\ held = [p \in Procs |-> FALSE]
    /\ ev = NoEv

NextLoad == LoadDriver

\* The module is loaded with any driver configured.
LoadSpec == InitLoadSpec /\ [][NextLoad]_vars

\* the driver has every required capability
Capable(d) ==
    d.isFunction /\ d.methods = REQUIRED_STATIC_METHODS /\ d.PLATFORM = "string"

\* C25: a driver is registered only if it is a function with every required
\* static method and a string PLATFORM; otherwise the load throws
C25_DriverRejectedAtLoad ==
    /\ loaded = "registered" => Capable(driver)
    /\ loaded = "throws" => ~Capable(driver)

(***************************************************************************)
(* index.js: exports.discover (lines 48-71)                                *)
(***************************************************************************)

\* what a driver can put in its list: a device that has everything, an object
\* that is not a BaseDevice, a device that lacks a required method, a device
\* with a required property of the wrong type
DeviceKinds == {"device", "notBaseDevice", "missingMethod", "badProperty"}

DevicesOf(d) == [kind : DeviceKinds, driver : {d}]

\* the lists of at most MaxDevices devices of driver d
DeviceLists(d) ==
    UNION {[1..n -> DevicesOf(d)] : n \in 0..MaxDevices}

\* what driver d can call back with: an error or none, and an array or not
Responses(d) ==
    [err : BOOLEAN, isArray : {TRUE}, devices : DeviceLists(d)]
    \cup [err : BOOLEAN, isArray : {FALSE}, devices : {<< >>}]

\* BaseDevice.deviceIsValid (BaseDevice.js lines 726-742): false for what is
\* not a BaseDevice, otherwise the array missing
deviceIsValid(device) ==
    IF device.kind = "notBaseDevice"
    THEN [isArray |-> FALSE, missing |-> {}]
    ELSE [isArray |-> TRUE,
          missing |-> (IF device.kind = "missingMethod" THEN {"Method"} ELSE {})
                      \cup (IF device.kind = "badProperty" THEN {"Property"} ELSE {})]

\* missing.length === 0 (false.length is undefined)
lengthIsZero(v) == v.isArray /\ v.missing = {}

\* lines 61-64: valid is deviceList without the devices with something missing
validOf(list) == SelectSeq(list, LAMBDA d : lengthIsZero(deviceIsValid(d)))

\* concatDevices without the test of err
concatDevicesAlways(list, resp) ==
    IF resp.isArray THEN list \o resp.devices ELSE list

\* line 59: if(!err && devices instanceof Array) deviceList = deviceList.concat(devices || [])
concatDevices(list, resp) ==
    IF ~resp.err /\ resp.isArray THEN list \o resp.devices ELSE list

\* exports.discover is called: the method of every driver is called (lines 57-58)
Discover ==
    /\ pending = {} /\ count = 0 /\ completions = << >>
    /\ pending' = Drivers
    /\ UNCHANGED <<devVars, now, walkVars, bootVars, rotVars, purgeVars, loadVars, moreVars,
                   deviceList, count, completions, expected, erred>>

\* driver d calls back (lines 58-68)
DriverResponds(d) ==
    /\ d \in pending
    /\ \E resp \in Responses(d) :
          /\ deviceList' = concatDevices(deviceList, resp)
          /\ expected' = IF resp.err \/ ~resp.isArray THEN expected
                         ELSE expected \o SelectSeq(resp.devices, LAMBDA x : x.kind = "device")
          /\ erred' = IF resp.err THEN erred \cup {d} ELSE erred
    /\ pending' = pending \ {d}
    /\ count' = count + 1
    /\ completions' = IF count' = MaxDrivers
                      THEN Append(completions, validOf(deviceList'))
                      ELSE completions
    /\ UNCHANGED <<devVars, now, walkVars, bootVars, rotVars, purgeVars, loadVars, moreVars>>

\* discover is called once, and the drivers answer in any order.
NextDiscover ==
    \/ Discover
    \/ \E d \in Drivers : DriverResponds(d)

DiscoverSpec == Init /\ [][NextDiscover]_vars

CallIsAvailable(p, n) ==
    /\ p \in alive
    /\ HasFreeSlot(p, n)
    /\ Commit(p, isAvailable(Enter(p, FreeSlot(p, n), "isAvailable", Null), p, FreeSlot(p, n)))
    /\ UNCHANGED <<lockFile, now, hasRotateTo, faults>>

\* One process asks whether the device is available, and starts and ends
\* sessions on it, while the other process locks and unlocks the device.
NextAvail ==
    \/ CallIsAvailable(ThisProc, MaxCalls)
    \/ CallStartSession(ThisProc, MaxCalls)
    \/ CallEndSession(ThisProc, MaxCalls)
    \/ \E c \in Slots : ReadFile(ThisProc, c)
    \/ \E c \in Slots : GetProcessPath(ThisProc, c)
    \/ \E c \in Slots : WriteUnlocked(ThisProc, c)
    \/ \E c \in Slots : WriteFile(ThisProc, c)
    \/ OtherProcessWrites
    \/ Kill(OtherProc)

AvailSpec == InitLock /\ [][NextAvail]_vars

\* C27: isAvailable always calls back with a boolean, and with true when the
\* device has no session and its lock file is not locked by a living process
C27_IsAvailableCompletes ==
    ev.op = "isAvailable" =>
        /\ ev.res \in {"true", "false"}
        /\ (session[ev.p] = Null /\ ~LockHeld) => ev.res = "true"

(***************************************************************************)
(* Failure and round trip of startSession and endSession                   *)
(***************************************************************************)

\* the errors of a startSession that found the device locked or could not
\* write the lock file
StartFailures == {"DeviceLocked", "LockedByAnother", "IOError"}

\* the current session of p, if any, is one a startSession has handed out
NoSessionLeftBehind(p) == session[p] = Null \/ objs[p][session[p]].given

\* C28: when a startSession has failed because the device was locked or the
\* lock file could not be written, and no other call of the process is in
\* flight, the device has no session but one that a successful startSession
\* handed out, and localLock is not set unless the process holds the lock; a
\* startSession is refused as already started only because of such a session
C28_FailedStartChangesNothing ==
    /\ (ev.op = "startSession" /\ ev.res \in StartFailures /\ calls[ev.p] = NoCalls)
          => (NoSessionLeftBehind(ev.p) /\ (~held[ev.p] => ~localLock[ev.p]))
    /\ (ev.op = "startSession" /\ ev.res = "SessionAlreadyStarted" /\ calls[ev.p] = NoCalls)
          => NoSessionLeftBehind(ev.p)

\* the own sessions of p that have been destroyed
Ended(p) == {s \in 1..Len(objs[p]) : objs[p][s].own /\ objs[p][s].token = Null}

\* every session of the device in p was handed out by a successful startSession
AllStarted(p) == \A s \in 1..Len(objs[p]) : objs[p][s].own => objs[p][s].given

\* C29: when an endSession has succeeded, after startSessions that all
\* succeeded, with no file operation failed and no other call of the process
\* in flight, the device is as before the startSession: no session, localLock
\* not set, the lock file not locked by the process, and no ended session in
\* the registry under the token it was created with
C29_StartEndRoundTrip ==
    ( /\ ev.op = "endSession" /\ ev.res = "ok" /\ ev.lk = "unlocked"
      /\ calls[ev.p] = NoCalls /\ faults = 0 /\ AllStarted(ev.p) )
        => /\ session[ev.p] = Null
           /\ ~localLock[ev.p]
           /\ ~(lockFile.exists /\ lockFile.locked = 1 /\ lockFile.pid = ev.p)
           /\ \A s \in Ended(ev.p) : OriginalToken(s) \notin sessions[ev.p]

(***************************************************************************)
(* Booted devices and the lock                                             *)
(***************************************************************************)

\* C30: when a boot of this process that found the device shut down, spawned
\* the Simulator and waited for the device ends successfully with the device
\* booted, the lock of the device is not held by another living process
C30_BootedNotLockedByOther ==
    [][\A b \in Boots :
          ( /\ Settles(b) /\ boots'[b].res = "ok" /\ deviceBooted'
            /\ boots'[b].obs = "shutdown" /\ boots'[b].polls > 0 )
          => ~LockedByOther']_vars

(***************************************************************************)
(* Discovery: iOSDevice.generateDeviceObjects (iOS/index.js 463-550).      *)
(* AndroidDevice.getAvailableSimulators (Android/index.js 1152-1243)       *)
(* counts the files of the AVD directory in the same way.                  *)
(***************************************************************************)

\* everything but the state of generateDeviceObjects
notGen == <<devVars, walkVars, bootVars, rotVars, purgeVars, loadVars, discVars, instVars, recVars,
           wfbVars>>

\* line 468: !WALKING_DEVICES || (Date.now() - LAST_DEVICE_WALK > REFRESH_TIMEOUT)
startsGen == ~WALKING_DEVICES \/ (now - LAST_DEVICE_WALK > REFRESH_TIMEOUT)

\* the requests in DEVICE_QUEUE
GenQueued == {DEVICE_QUEUE[i] : i \in 1..Len(DEVICE_QUEUE)}

\* DEVICE_QUEUE.each(function (c) { c.resolve(arr) / c.reject(e); c.done.call(...) })
settleQueue(res) ==
    [r \in GenRequests |->
        IF r \in GenQueued
        THEN [res |-> res, n |-> results[r].n + 1]
        ELSE results[r]]

\* request r calls generateDeviceObjects (lines 463-549, synchronous part); in
\* the else branch WALKING_DEVICES is true, so the request is queued
generateDeviceObjects(r) ==
    /\ results[r].res = "none"
    /\ \A q \in 1..(r - 1) : results[q].res # "none"
    /\ DEVICE_QUEUE' = Append(DEVICE_QUEUE, r)
    /\ results' = [results EXCEPT ![r].res = "queued"]
    /\ IF startsGen
       THEN /\ WALKING_DEVICES' = TRUE
            /\ LAST_DEVICE_WALK' = now
            /\ gens' = [gens EXCEPT ![r] = [NoGen EXCEPT !.pc = "exec"]]
       ELSE UNCHANGED <<WALKING_DEVICES, LAST_DEVICE_WALK, gens>>
    /\ UNCHANGED <<notGen, now>>

\* the callback of exec('instruments -s devices') for walk w (lines 477-488,
\* 535): with an error every queued request is rejected; otherwise
\* udidIsOfSimulator is called for each device listed, and nothing else is
\* done
OnInstrumentsDevices(w) ==
    /\ gens[w].pc = "exec"
    /\ \E err \in BOOLEAN, n \in 0..MaxDevices :
          IF err
          THEN /\ results' = settleQueue("err")
               /\ WALKING_DEVICES' = FALSE
               /\ DEVICE_QUEUE' = << >>
               /\ gens' = [gens EXCEPT ![w].pc = "over"]
          ELSE /\ gens' = [gens EXCEPT ![w] = [@ EXCEPT !.pc = "devices", !.devices = n,
                                                        !.udid = n]]
               /\ UNCHANGED <<results, WALKING_DEVICES, DEVICE_QUEUE>>
    /\ UNCHANGED <<notGen, now, LAST_DEVICE_WALK>>

\* the callback of udidIsOfSimulator for a device of walk w (lines 490-512):
\* with an error every queued request is rejected, otherwise
\* getEnvironmentVariables is called on the device
OnUdidIsOfSimulator(w) ==
    /\ gens[w].udid > 0
    /\ \E err \in BOOLEAN :
          IF err
          THEN /\ results' = settleQueue("err")
               /\ WALKING_DEVICES' = FALSE
               /\ DEVICE_QUEUE' = << >>
               /\ gens' = [gens EXCEPT ![w].udid = @ - 1]
          ELSE /\ gens' = [gens EXCEPT ![w] = [@ EXCEPT !.udid = @ - 1, !.env = @ + 1]]
               /\ UNCHANGED <<results, WALKING_DEVICES, DEVICE_QUEUE>>
    /\ UNCHANGED <<notGen, now, LAST_DEVICE_WALK>>

\* the callback of getEnvironmentVariables for a device of walk w (lines
\* 514-528): when ++complete === devices.length every queued request is
\* resolved
OnDeviceEnvironment(w) ==
    /\ gens[w].env > 0
    /\ gens' = [gens EXCEPT ![w] = [@ EXCEPT !.env = @ - 1, !.complete = @ + 1]]
    /\ IF gens[w].complete + 1 = gens[w].devices
       THEN /\ WALKING_DEVICES' = FALSE
            /\ results' = settleQueue("ok")
            /\ DEVICE_QUEUE' = << >>
       ELSE UNCHANGED <<results, WALKING_DEVICES, DEVICE_QUEUE>>
    /\ UNCHANGED <<notGen, now, LAST_DEVICE_WALK>>

\* time passes
GenTick ==
    /\ now < MaxWalkTicks * WalkTickMs
    /\ now' = now + WalkTickMs
    /\ UNCHANGED <<notGen, genVars>>

\* Requests for the device list arrive at any time; a walk takes any time.
NextGen ==
    \/ \E r \in GenRequests : generateDeviceObjects(r)
    \/ \E w \in GenRequests : OnInstrumentsDevices(w)
    \/ \E w \in GenRequests : OnUdidIsOfSimulator(w)
    \/ \E w \in GenRequests : OnDeviceEnvironment(w)
    \/ GenTick

\* every external command of a walk ends and calls back
GenFairness ==
    \A w \in GenRequests :
        /\ WF_vars(OnInstrumentsDevices(w))
        /\ WF_vars(OnUdidIsOfSimulator(w))
        /\ WF_vars(OnDeviceEnvironment(w))

GenSpec == InitWalkSpec /\ [][NextGen]_vars /\ GenFairness

\* C31: every request for the device list is eventually answered, and when a
\* walk is in progress the flag is eventually cleared
C31_DiscoveryCompletes ==
    /\ \A r \in GenRequests :
          (results[r].res = "queued") ~> (results[r].res \in {"ok", "err"})
    /\ WALKING_DEVICES ~> ~WALKING_DEVICES

(***************************************************************************)
(* Guarded operations in flight                                            *)
(***************************************************************************)

\* the guarded operations of p whose backend action has been started and has
\* not ended
InAction(p) == {c \in Slots : calls[p][c].op = "guarded" /\ calls[p][c].pc = "action"}

\* C32: at most one guarded backend action of a process is in progress on the
\* device at any time, and none is started while another is in progress
C32_OneActionAtATime ==
    [][\A p \in Procs :
          /\ Cardinality(InAction(p)') <= 1
          /\ (InAction(p) # {}) => (InAction(p)' \subseteq InAction(p))]_vars

(***************************************************************************)
(* Instruments (iOS/index.js 146-269) and shutdown (part_000 301-326).     *)
(* The device is booted and has a session, which a caller presents or      *)
(* not; a guarded call and its action are one step.                        *)
(***************************************************************************)

\* everything but the state of the instruments
notInst == <<devVars, now, walkVars, bootVars, rotVars, purgeVars, loadVars, discVars, genVars,
            recVars, wfbVars>>

\* what a caller passes as the session: the device's session, or another
\* value (nothing, an id, a function)
SessionKinds == {"session", "other"}

\* BaseDevice.js line 483: !(userSession instanceof DeviceSession) is
\* InvalidSession; the session of the device passes the template
guardPasses(kind) == kind = "session"

\* startInstrument(session, options, done), lines 170-222: spawn, the map
\* entry is the subprocess itself
StartInstrument(i) ==
    /\ ~crashed
    /\ iprocs[i] = "none"
    /\ \A j \in 1..(i - 1) : iprocs[j] # "none"
    /\ \E kind \in SessionKinds :
          IF guardPasses(kind)
          THEN /\ instruments' = instruments \cup {i}
               /\ iprocs' = [iprocs EXCEPT ![i] = "running"]
               /\ iev' = [NoIev EXCEPT !.op = "startInstrument", !.res = "ok", !.arg = i,
                                       !.kind = kind]
          ELSE /\ iev' = [NoIev EXCEPT !.op = "startInstrument", !.res = "InvalidSession",
                                       !.arg = i, !.kind = kind]
               /\ UNCHANGED <<instruments, iprocs>>
    /\ UNCHANGED <<notInst, signalled, emitted, crashed, requested, shut>>

\* the action of stopInstrument, lines 237-244: instruments[instrumentId] is
\* a subprocess, which has no property process, and ChildProcess is the module
\* child_process (line 13), which is not callable: for an id in the map
\* undefined instanceof ChildProcess throws a TypeError, in the callback of
\* isBooted, which ends the process unless the application handles uncaught
\* exceptions; for any other id the test is false at typeof
stopInstrumentAction(id) ==
    IF id \in instruments
    THEN /\ crashed' \in BOOLEAN
         /\ iev' = [NoIev EXCEPT !.op = "stopInstrument", !.res = "TypeError", !.arg = id,
                                 !.kind = "session", !.was = instruments]
    ELSE /\ crashed' = crashed
         /\ iev' = [NoIev EXCEPT !.op = "stopInstrument", !.res = "ok", !.arg = id,
                                 !.kind = "session", !.was = instruments]

\* stopInstrument(session, instrumentId, done), lines 234-246
StopInstrument(id) ==
    /\ ~crashed
    /\ \E kind \in SessionKinds :
          IF guardPasses(kind)
          THEN /\ stopInstrumentAction(id)
               /\ requested' = IF id \in instruments THEN requested \cup {id} ELSE requested
          ELSE /\ iev' = [NoIev EXCEPT !.op = "stopInstrument", !.res = "InvalidSession",
                                       !.arg = id, !.kind = kind, !.was = instruments]
               /\ UNCHANGED <<crashed, requested>>
    /\ UNCHANGED <<notInst, instruments, iprocs, signalled, emitted, shut>>

\* the 'exit' handler of an instrument (lines 211-215): the event is emitted
\* if(instruments[instrumentID] && !instruments[instrumentID].scheduledClose);
\* scheduledClose is set nowhere but in stopInstrument, on an entry it deletes
InstrumentExits(i) ==
    /\ iprocs[i] = "running"
    /\ iprocs' = [iprocs EXCEPT ![i] = "exited"]
    /\ emitted' = IF ~crashed /\ i \in instruments THEN emitted \cup {i} ELSE emitted
    /\ iev' = NoIev
    /\ UNCHANGED <<notInst, instruments, signalled, crashed, requested, shut>>

\* the result of stopAllInstruments when the template lets it pass (lines
\* 256-267): for each entry i, self.stopInstrument(i.id, callback) is called
\* with the id as the session, which the template rejects at once with
\* InvalidSession, and the callback counts it; with ++count === total the
\* call completes, and with no entry it never does
stopAllResult(total) == IF total = 0 THEN "NoCallback" ELSE "ok"

\* stopAllInstruments(session, done), lines 254-269
StopAllInstruments ==
    /\ ~crashed
    /\ shut.pc = "idle"
    /\ \E kind \in SessionKinds :
          iev' = [NoIev EXCEPT !.op = "stopAllInstruments",
                               !.res = IF guardPasses(kind)
                                       THEN stopAllResult(Cardinality(instruments))
                                       ELSE "InvalidSession",
                               !.kind = kind, !.was = instruments]
    /\ UNCHANGED <<notInst, instruments, iprocs, signalled, emitted, crashed, requested, shut>>

\* shutdown(done), part_000 lines 301-304: self.stopAllInstruments(function)
\* passes the function as the session, so the template calls it at once with
\* InvalidSession, and 'xcrun simctl shutdown' is run
CallShutdown ==
    /\ ~crashed
    /\ shut.pc = "idle"
    /\ \E presented \in BOOLEAN :
          shut' = [NoShutdown EXCEPT !.pc = "exec", !.presented = presented,
                                     !.running = {i \in instruments : iprocs[i] = "running"}]
    /\ iev' = NoIev
    /\ UNCHANGED <<notInst, instruments, iprocs, signalled, emitted, crashed, requested>>

\* the callback of exec('xcrun simctl shutdown'), part_000 lines 305-322
OnShutdown ==
    /\ ~crashed
    /\ shut.pc = "exec"
    /\ \E err \in BOOLEAN :
          shut' = [shut EXCEPT !.pc = "done", !.res = IF err THEN "Error" ELSE "ok"]
    /\ iev' = [NoIev EXCEPT !.op = "shutdown"]
    /\ UNCHANGED <<notInst, instruments, iprocs, signalled, emitted, crashed, requested>>

\* Instruments are started and stopped on the device, exit on their own, and
\* the device is shut down.
NextInst ==
    \/ \E i \in Instruments : StartInstrument(i)
    \/ \E i \in Instruments : StopInstrument(i)
    \/ \E i \in Instruments : InstrumentExits(i)
    \/ StopAllInstruments
    \/ CallShutdown
    \/ OnShutdown

InstSpec == InitWalkSpec /\ [][NextInst]_vars

\* C33: a stopInstrument called with the session for an instrument in the
\* map signals its subprocess and removes it from the map, and no instrument
\* that was stopped so emits the terminated event when it exits
C33_StopSignalsAndUnschedules ==
    /\ (iev.op = "stopInstrument" /\ iev.kind = "session" /\ iev.arg \in iev.was)
          => (iev.res = "ok" /\ iev.arg \in signalled /\ iev.arg \notin instruments)
    /\ emitted \cap requested = {}

\* C34: stopAllInstruments called with the session calls back, and after a
\* successful shutdown the map is empty and every instrument that was running
\* when it was called has been signalled
C34_ShutdownStopsInstruments ==
    /\ (iev.op = "stopAllInstruments" /\ iev.kind = "session") => iev.res = "ok"
    /\ (shut.pc = "done" /\ shut.res = "ok")
          => (instruments = {} /\ shut.running \subseteq signalled)

(***************************************************************************)
(* shutdown and endSession and the session of the caller                   *)
(***************************************************************************)

\* device.endSession(done) called by a caller that has userSession, a
\* DeviceSession it has received, or Null for none: endSession has no
\* parameter for it (BaseDevice.js line 443)
CallEndSessionAs(p, n) ==
    /\ p \in alive
    /\ HasFreeSlot(p, n)
    /\ \E userSession \in {Null} \cup {s \in 1..Len(objs[p]) : objs[p][s].given} :
          Commit(p, endSession(Enter(p, FreeSlot(p, n), "endSession", userSession),
                               p, FreeSlot(p, n)))
    /\ UNCHANGED <<lockFile, now, hasRotateTo, faults>>

\* device.shutdown(done) called by a caller that has the session of the device,
\* or has not: shutdown has no parameter for it (part_000 line 301)
CallShutdownAs(p) ==
    /\ p \in alive
    /\ CallShutdown
    /\ shut'.presented => (session[p] # Null /\ objs[p][session[p]].given)
    /\ UNCHANGED <<lockFile, now, hasRotateTo, faults>>

\* One process starts sessions on the device; sessions are ended and the
\* device is shut down by callers with and without the session, while the
\* other process locks and unlocks the device.
NextGuard ==
    \/ CallStartSession(ThisProc, MaxCalls)
    \/ CallEndSessionAs(ThisProc, MaxCalls)
    \/ CallShutdownAs(ThisProc)
    \/ OnShutdown
    \/ \E c \in Slots : ReadFile(ThisProc, c)
    \/ \E c \in Slots : GetProcessPath(ThisProc, c)
    \/ \E c \in Slots : WriteUnlocked(ThisProc, c)
    \/ \E c \in Slots : WriteFile(ThisProc, c)
    \/ OtherProcessWrites
    \/ Kill(OtherProc)

GuardSpec == InitLock /\ [][NextGuard]_vars

\* C35: an endSession by a caller without a session ends with InvalidSession,
\* and a shutdown by a caller without the session of the device ends with
\* InvalidSession without the backend command being run
C35_ShutdownAndEndGuarded ==
    /\ (ev.op = "endSession" /\ ev.arg = Null) => ev.res = "InvalidSession"
    /\ (shut.pc # "idle" /\ ~shut.presented)
          => (shut.pc = "done" /\ shut.res = "InvalidSession")

(***************************************************************************)
(* Device records: BaseDevice (BaseDevice.js 19-25), and where the         *)
(* discoveries construct them (iOS/index.js 504-512, Android/index.js      *)
(* 1132 and 1318-1332)                                                     *)
(***************************************************************************)

\* everything but the device records
notRecords == <<devVars, now, walkVars, bootVars, rotVars, purgeVars, loadVars, discVars,
                genVars, instVars, wfbVars>>

\* iOS/index.js line 506 and Android/index.js line 1132 take the record from
\* BaseDevice.DEVICES when there is one; Android/index.js line 1322 constructs
\* a PhysicalDevice in any case
reusesRecord(k) == k # "AndroidPhysical" /\ DEVICES[k] # Null

\* a discovery finds device k and returns its record; the constructor
\* registers a new record under the id (BaseDevice.js line 20)
Rediscover(k) ==
    /\ IF reusesRecord(k)
       THEN /\ returned' = [returned EXCEPT ![k] = DEVICES[k]]
            /\ UNCHANGED <<DEVICES, created>>
       ELSE /\ Len(created) < MaxRecords
            /\ created' = Append(created, [id |-> k, session |-> FALSE])
            /\ DEVICES' = [DEVICES EXCEPT ![k] = Len(created) + 1]
            /\ returned' = [returned EXCEPT ![k] = Len(created) + 1]
    /\ UNCHANGED notRecords

\* startSession succeeds on a record a discovery returned: the closure
\* variables session and localLock of that record are set (lines 23-25, 402)
SessionStartedOn(o) ==
    /\ o \in 1..Len(created)
    /\ ~created[o].session
    /\ created' = [created EXCEPT ![o].session = TRUE]
    /\ UNCHANGED <<notRecords, DEVICES, returned>>

\* Devices are discovered again and again, and sessions are started on the
\* records returned.
NextRecords ==
    \/ \E k \in DeviceIds : Rediscover(k)
    \/ \E o \in 1..MaxRecords : SessionStartedOn(o)

RecordSpec == InitWalkSpec /\ [][NextRecords]_vars

\* the records constructed for device id k
RecordsOf(k) == {o \in 1..Len(created) : created[o].id = k}

\* C36: at most one record exists for a device id, and a record with a
\* session is the record the latest discovery of its device returned
C36_OneRecordPerDevice ==
    /\ \A k \in DeviceIds : Cardinality(RecordsOf(k)) <= 1
    /\ \A o \in 1..Len(created) : created[o].session => returned[created[o].id] = o

(***************************************************************************)
(* The cached lock, and the pairing of lock and session                    *)
(***************************************************************************)

\* readLock called by p would answer { locked: 1, pid: process.pid } without
\* reading the file (BaseDevice.js lines 116-119)
AnswersFromCache(p) == p \in alive /\ localLock[p]

\* C37: whenever readLock of a process with no call in flight reports the lock
\* as held by the process from localLock, the lock file reads 1.<its pid>
C37_CachedLockMatchesFile ==
    \A p \in Procs :
        (AnswersFromCache(p) /\ calls[p] = NoCalls) => lockFile = Contents(TRUE, p)

(***************************************************************************)
(* isBooting after the boot                                                *)
(***************************************************************************)

\* C38: isBooting is set only while a boot call is in flight
C38_IsBootingOnlyWhileBooting ==
    isBooting => \E b \in Boots : InFlight(b)

(***************************************************************************)
(* Lock and session                                                        *)
(***************************************************************************)

\* the lock file records the lock as held by p
FileLockedBy(p) == lockFile = Contents(TRUE, p)

\* C39: when no call of a living process is in flight and no file operation
\* has failed, the lock file records the lock as held by the process if and
\* only if the device has a session in the process
C39_LockAndSessionPaired ==
    \A p \in Procs :
        (p \in alive /\ calls[p] = NoCalls /\ faults = 0)
            => (FileLockedBy(p) <=> session[p] # Null)

(***************************************************************************)
(* AndroidDevice.waitForDeviceToFinishBooting (Android/index.js 1046-1077) *)
(***************************************************************************)

\* everything but the boot wait and the clock
notWait == <<devVars, walkVars, bootVars, rotVars, purgeVars, loadVars, discVars,
             genVars, instVars, recVars>>

\* the timeouts a caller passes; anything but a number is the default (line 1048)
Timeouts == {0, WaitTickMs, WAIT_FOR_BOOT_TIMEOUT}

\* waitForBoot with <= for <
androidWaitForBootInclusive(one, err, elapsed, tmo) ==
    IF one THEN "ok"
    ELSE IF elapsed <= tmo THEN "again"
    ELSE IF err THEN "ExecError" ELSE "BootTimeout"

\* function waitForBoot (err, stdout), lines 1056-1068: stdout is '1', or the
\* time is not up and the command is run again, or the call fails with
\* e = err || new Error('Device boot time has exceeded the boot timeout')
androidWaitForBoot(one, err, elapsed, tmo) ==
    IF one THEN "ok"
    ELSE IF elapsed < tmo THEN "again"
    ELSE IF err THEN "ExecError" ELSE "BootTimeout"

\* waitForDeviceToFinishBooting(serial, tmo, done), lines 1046-1054 and
\* 1071-1075: with a string for serial listRunningDevices is called, with
\* anything else the call fails at once
CallWaitForDeviceToFinishBooting ==
    /\ wait.pc = "idle"
    /\ \E isString \in BOOLEAN, tmo \in Timeouts :
          /\ now + tmo <= MaxWaitTicks * WaitTickMs
          /\ wait' = IF isString
                     THEN [NoWait EXCEPT !.pc = "list", !.start = now, !.timeout = tmo,
                                         !.execs = 1]
                     ELSE [NoWait EXCEPT !.pc = "done", !.start = now, !.timeout = tmo,
                                         !.res = "ArgumentError", !.n = 1,
                                         !.isString = FALSE]
    /\ UNCHANGED <<notWait, now>>

\* the callback of listRunningDevices (lines 1053-1055), which does not look
\* at its arguments: the command is run
OnListRunningDevices ==
    /\ wait.pc = "list"
    /\ wait' = [wait EXCEPT !.pc = "poll"]
    /\ UNCHANGED <<notWait, now>>

\* the callback of exec(command), lines 1056-1068
OnPoll ==
    /\ wait.pc = "poll"
    /\ wait.execs > 0
    /\ \E one, err \in BOOLEAN :
          LET r == androidWaitForBoot(one, err, now - wait.start, wait.timeout)
              h == [wait EXCEPT !.polled = TRUE, !.lastOne = one, !.lastErr = err,
                                !.lastAt = now]
          IN  wait' = IF r = "again"
                      THEN h
                      ELSE [h EXCEPT !.pc = "done", !.execs = @ - 1, !.res = r, !.n = @ + 1]
    /\ UNCHANGED <<notWait, now>>

\* time passes
WaitTick ==
    /\ now < MaxWaitTicks * WaitTickMs
    /\ now' = now + WaitTickMs
    /\ UNCHANGED <<notWait, wait>>

\* One call waits for the device; the device finishes booting at any time or
\* never.
NextWait ==
    \/ CallWaitForDeviceToFinishBooting
    \/ OnListRunningDevices
    \/ OnPoll
    \/ WaitTick

\* every command ends and calls back, and time passes
WaitFairness ==
    /\ WF_vars(OnListRunningDevices)
    /\ WF_vars(OnPoll)
    /\ WF_vars(WaitTick)

WaitSpec == InitWalkSpec /\ [][NextWait]_vars /\ WaitFairness

\* the time from the start of the call to the end of the latest poll
Elapsed == wait.lastAt - wait.start

====
